---------------------------- MODULE Spec2Model ----------------------------
(***************************************************************************)
(* A model of the invoice extraction pipeline of GST_Invoice_Analyzer      *)
(* (src/app2.py): text acquisition, the model call, response parsing,      *)
(* field validation with regular-expression fallbacks, date normalization  *)
(* and the batch extraction loop.                                          *)
(*                                                                         *)
(* Python strings are TLA+ strings, handled character by character with    *)
(* Len, SubSeq and \o.  Amounts (Python floats) are integers counting      *)
(* hundredths: 155.59 is 15559.                                            *)
(***************************************************************************)
EXTENDS Integers, Sequences, FiniteSets, TLC

(***************************************************************************)
(* Python values, as json.loads builds them: a value is [type, value] with *)
(* type "null" (None), "bool", "num" (value in hundredths), "str", "list"  *)
(* (value a sequence of values) or "obj" (a dict: value a function from    *)
(* its keys).  TLC compares the fields of two records in the order in      *)
(* which the field names first occur in the module, so type is named       *)
(* before value: values of different types are told apart by their type.   *)
(***************************************************************************)
None == [type |-> "null", value |-> 0]
Str(s) == [type |-> "str", value |-> s]
Num(n) == [type |-> "num", value |-> n]
Bool(b) == [type |-> "bool", value |-> b]
List(l) == [type |-> "list", value |-> l]
Obj(f) == [type |-> "obj", value |-> f]
EmptyDict == Obj(<<>>)

\* bool(x): what  if x  and  not x  test
Truthy(x) ==
    CASE x.type = "null" -> FALSE
      [] x.type = "bool" -> x.value
      [] x.type = "num"  -> x.value # 0
      [] x.type = "str"  -> x.value # ""
      [] x.type = "list" -> x.value # <<>>
      [] x.type = "obj"  -> DOMAIN x.value # {}

\* x == 0 in Python: a zero number, or False
EqualsZero(x) == (x.type = "num" /\ x.value = 0) \/ (x.type = "bool" /\ x.value = FALSE)
\* x == "N/A"
EqualsNA(x) == x.type = "str" /\ x.value = "N/A"

\* dict.get(key), dict[key] = value, and  key in dict
Get(d, key) == IF key \in DOMAIN d.value THEN d.value[key] ELSE None
Put(d, key, value) == Obj((key :> value) @@ d.value)
HasKey(d, key) == key \in DOMAIN d.value

(***************************************************************************)
(* Characters and strings (the str methods the code calls).                *)
(***************************************************************************)
Char(s, i) == SubSeq(s, i, i)

CharsOf(s) == {Char(s, i) : i \in 1..Len(s)}

LowerLetters == "abcdefghijklmnopqrstuvwxyz"
UpperLetters == "ABCDEFGHIJKLMNOPQRSTUVWXYZ"
DigitChars == "0123456789"

Digits == CharsOf(DigitChars)
Lowers == CharsOf(LowerLetters)
Uppers == CharsOf(UpperLetters)
Letters == Lowers \cup Uppers
\* \s of the re module, and the characters str.strip() and str.split() drop
Whitespace == {" ", "\n", "\t"}

\* the first position of character c in string s, 0 when absent
IndexIn(c, s) ==
    LET at == {i \in 1..Len(s) : Char(s, i) = c}
    IN  IF at = {} THEN 0 ELSE CHOOSE i \in at : \A j \in at : i <= j

LowerChar(c) == IF c \in Uppers THEN Char(LowerLetters, IndexIn(c, UpperLetters)) ELSE c
UpperChar(c) == IF c \in Lowers THEN Char(UpperLetters, IndexIn(c, LowerLetters)) ELSE c

RECURSIVE MapLower(_)
\* str.lower(), one half of the string after the other
MapLower(s) ==
    IF Len(s) <= 1 THEN LowerChar(s)
    ELSE MapLower(SubSeq(s, 1, Len(s) \div 2)) \o MapLower(SubSeq(s, (Len(s) \div 2) + 1, Len(s)))

DigitVal(c) == IndexIn(c, DigitChars) - 1

\* whether sub occurs in s starting at position i
StartsAt(s, sub, i) == i + Len(sub) - 1 <= Len(s) /\ SubSeq(s, i, i + Len(sub) - 1) = sub

\* the Python operator  sub in s
Contains(s, sub) == \E i \in 1..(Len(s) + 1) : StartsAt(s, sub, i)

\* str.find(c) + 1 and str.rfind(c) + 1 for a character c: 0 stands for Python's -1
Find(s, c) == IndexIn(c, s)
RFind(s, c) ==
    LET at == {i \in 1..Len(s) : Char(s, i) = c}
    IN  IF at = {} THEN 0 ELSE CHOOSE i \in at : \A j \in at : i >= j

\* the least number of a non-empty set of numbers
Min(S) == CHOOSE i \in S : \A j \in S : i <= j

RECURSIVE Replace(_, _, _)
\* str.replace(old, new), old not empty: the leftmost occurrence, then the rest
Replace(s, old, new) ==
    LET at == {i \in 1..Len(s) : StartsAt(s, old, i)}
    IN  IF at = {} THEN s
        ELSE SubSeq(s, 1, Min(at) - 1) \o new
                 \o Replace(SubSeq(s, Min(at) + Len(old), Len(s)), old, new)

RECURSIVE LStrip(_)
LStrip(s) == IF s # "" /\ Head(s) \in Whitespace THEN LStrip(Tail(s)) ELSE s
RECURSIVE RStrip(_)
RStrip(s) ==
    IF s # "" /\ Char(s, Len(s)) \in Whitespace THEN RStrip(SubSeq(s, 1, Len(s) - 1)) ELSE s
\* str.strip()
Strip(s) == LStrip(RStrip(s))

RECURSIVE SplitFrom(_, _, _)
\* str.split(): the maximal runs of non-whitespace characters, in order
SplitFrom(s, i, cur) ==
    IF i > Len(s) THEN (IF cur = "" THEN <<>> ELSE <<cur>>)
    ELSE IF Char(s, i) \in Whitespace
         THEN (IF cur = "" THEN <<>> ELSE <<cur>>) \o SplitFrom(s, i + 1, "")
         ELSE SplitFrom(s, i + 1, cur \o Char(s, i))
Split(s) == SplitFrom(s, 1, "")

\* str.zfill(2) of a string without sign
ZFill2(s) == IF Len(s) = 0 THEN "00" ELSE IF Len(s) = 1 THEN "0" \o s ELSE s

IsDigits(s) == s # "" /\ \A i \in 1..Len(s) : Char(s, i) \in Digits

RECURSIVE DigitsVal(_, _)
\* the number written by the digit string s, after the digits already read as acc
DigitsVal(s, acc) == IF s = "" THEN acc ELSE DigitsVal(Tail(s), 10 * acc + DigitVal(Head(s)))

\* a natural number below 100 written with two digits
TwoDigits(n) == Char(DigitChars, ((n \div 10) % 10) + 1) \o Char(DigitChars, (n % 10) + 1)

RECURSIVE Decimal(_)
\* a natural number written in decimal, without padding
Decimal(n) == IF n < 10 THEN Char(DigitChars, n + 1) ELSE Decimal(n \div 10) \o Char(DigitChars, (n % 10) + 1)

(***************************************************************************)
(* float(): the value of a numeric string in hundredths, or a ValueError.  *)
(* The strings converted here are captures of [0-9,]+\.?[0-9]* with the    *)
(* commas removed: digits, an optional point, digits; digits after the     *)
(* second decimal are dropped.                                             *)
(***************************************************************************)
ValueError == [ok |-> FALSE, v |-> 0]

float(s) ==
    LET p    == Find(s, ".")
        ip   == IF p = 0 THEN s ELSE SubSeq(s, 1, p - 1)
        fp   == IF p = 0 THEN "" ELSE SubSeq(s, p + 1, Len(s))
        fp2  == SubSeq(fp \o "00", 1, 2)
    IN  IF /\ (ip # "" \/ fp # "")
           /\ (ip = "" \/ IsDigits(ip))
           /\ (fp = "" \/ IsDigits(fp))
        THEN [ok |-> TRUE, v |-> 100 * DigitsVal(ip, 0) + DigitsVal(fp2, 0)]
        ELSE ValueError

(***************************************************************************)
(* The re module, for the patterns of this program: a pattern is a         *)
(* sequence of atoms, each a character class repeated between min and max  *)
(* times (max -1: unbounded), greedy with backtracking; its capture group  *)
(* is the tail of the pattern starting at atom number cap.                 *)
(***************************************************************************)
One(cls)    == [cls |-> cls, min |-> 1, max |-> 1]
Opt(cls)    == [cls |-> cls, min |-> 0, max |-> 1]
Star(cls)   == [cls |-> cls, min |-> 0, max |-> -1]
Plus(cls)   == [cls |-> cls, min |-> 1, max |-> -1]
Rep(cls, n) == [cls |-> cls, min |-> n, max |-> n]

\* a literal, character by character
Lit(s) == [i \in 1..Len(s) |-> One({Char(s, i)})]

\* re.IGNORECASE: every class also holds the other case of its letters
IgnoreCase(atoms) ==
    [i \in 1..Len(atoms) |->
        [atoms[i] EXCEPT !.cls = @ \cup {LowerChar(c) : c \in @} \cup {UpperChar(c) : c \in @}]]

RECURSIVE RunLen(_, _, _, _)
\* how many characters of class cls follow each other in s from position i, at most max
RunLen(cls, s, i, max) ==
    IF max = 0 \/ i > Len(s) \/ Char(s, i) \notin cls THEN 0
    ELSE 1 + RunLen(cls, s, i + 1, max - 1)

RECURSIVE MatchFrom(_, _, _, _)
RECURSIVE TryAtom(_, _, _, _, _)
RECURSIVE TryRest(_, _, _, _, _, _)
\* The first match, in backtracking order, of atoms k.. at position i of s:
\* the start position of each of these atoms followed by the end position
\* (one past the last character), or <<>> when there is none.
MatchFrom(atoms, k, s, i) ==
    IF k > Len(atoms) THEN <<i>>
    ELSE TryAtom(atoms, k, s, i, RunLen(atoms[k].cls, s, i, atoms[k].max))
\* atom k taking n characters, then fewer
TryAtom(atoms, k, s, i, n) ==
    IF n < atoms[k].min THEN <<>>
    ELSE TryRest(atoms, k, s, i, n, MatchFrom(atoms, k + 1, s, i + n))
\* rest: the match of the atoms after k; without one, atom k takes one character less
TryRest(atoms, k, s, i, n, rest) ==
    IF rest # <<>> THEN <<i>> \o rest ELSE TryAtom(atoms, k, s, i, n - 1)

NoMatch == [found |-> FALSE, start |-> 0, stop |-> 0, group |-> ""]

\* pattern.match at position i: the match and its captured group
MatchObject(pat, s, i, r) ==
    IF r = <<>> THEN NoMatch
    ELSE [found |-> TRUE, start |-> i, stop |-> r[Len(r)],
          group |-> SubSeq(s, r[pat.cap], r[Len(r)] - 1)]
MatchAt(pat, s, i) == MatchObject(pat, s, i, MatchFrom(pat.atoms, 1, s, i))

\* re.search from position i on: the match at the leftmost position that has one
LeftmostOf(pat, s, at) == IF at = {} THEN NoMatch ELSE MatchAt(pat, s, Min(at))
SearchFrom(pat, s, i) ==
    LeftmostOf(pat, s, {j \in i..(Len(s) + 1) : MatchFrom(pat.atoms, 1, s, j) # <<>>})

\* re.search(pattern, s)
Search(pat, s) == SearchFrom(pat, s, 1)

RECURSIVE FindAllFrom(_, _, _)
RECURSIVE FindAllAfter(_, _, _)
\* re.findall(pattern, s): the groups of the non-overlapping matches, left to right
FindAllFrom(pat, s, i) == FindAllAfter(pat, s, SearchFrom(pat, s, i))
\* m: the next match; the search goes on where it stops
FindAllAfter(pat, s, m) ==
    IF ~m.found THEN <<>>
    ELSE <<m.group>> \o FindAllFrom(pat, s, IF m.stop > m.start THEN m.stop ELSE m.stop + 1)
FindAll(pat, s) == FindAllFrom(pat, s, 1)

\* label\s*:?\s*[₹\s]*([0-9,]+\.?[0-9]*) with re.IGNORECASE
Rupee == "₹"
AmountTail ==
    <<Star(Whitespace), Opt({":"}), Star(Whitespace), Star({Rupee} \cup Whitespace),
      Plus(Digits \cup {","}), Opt({"."}), Star(Digits)>>
AmountPattern(label) ==
    [atoms |-> IgnoreCase(Lit(label) \o AmountTail), cap |-> Len(label) + 5]

\* label\s*@?\s*[0-9.%]*\s*:?\s*[₹\s]*([0-9,]+\.?[0-9]*) with re.IGNORECASE
RatePattern(label) ==
    [atoms |-> IgnoreCase(Lit(label) \o
                  <<Star(Whitespace), Opt({"@"}), Star(Whitespace),
                    Star(Digits \cup {".", "%"})>> \o AmountTail),
     cap |-> Len(label) + 9]

(***************************************************************************)
(* calculate_total_gst_from_text                                           *)
(***************************************************************************)
total_gst_patterns ==
    <<AmountPattern("Total GST"), AmountPattern("Total Tax"), AmountPattern("GST Total")>>
cgst_pattern == RatePattern("CGST")
sgst_pattern == RatePattern("SGST")
igst_pattern == RatePattern("IGST")

RECURSIVE AddAmounts(_, _)
RECURSIVE AddAmount(_, _, _)
\* total_gst += float(match.replace(',', '')) for each match in turn; a
\* ValueError leaves the loop with the sum reached so far
AddAmounts(matches, acc) ==
    IF ~acc.ok \/ matches = <<>> THEN acc
    ELSE AddAmount(matches, acc, float(Replace(Head(matches), ",", "")))
AddAmount(matches, acc, amount) ==
    IF amount.ok
    THEN AddAmounts(Tail(matches), [ok |-> TRUE, v |-> acc.v + amount.v])
    ELSE [ok |-> FALSE, v |-> acc.v]

\* the matches each method adds up, in the order the code reads them
Method1Matches(text) ==
    FindAll(total_gst_patterns[1], text) \o FindAll(total_gst_patterns[2], text)
        \o FindAll(total_gst_patterns[3], text)
Method2Matches(text) == FindAll(cgst_pattern, text) \o FindAll(sgst_pattern, text)
Method3Matches(text) == FindAll(igst_pattern, text)

\* after Method 2, total_gst being [ok, v]: ok is FALSE once float() has raised
\* and the except clause has ended the calculation
AfterMethod2(text, total_gst) ==
    IF ~total_gst.ok \/ total_gst.v > 0 THEN total_gst.v
    ELSE AddAmounts(Method3Matches(text), total_gst).v
\* after Method 1
AfterMethod1(text, total_gst) ==
    IF ~total_gst.ok \/ total_gst.v > 0 THEN total_gst.v
    ELSE AfterMethod2(text, AddAmounts(Method2Matches(text), total_gst))

calculate_total_gst_from_text(text) ==
    AfterMethod1(text, AddAmounts(Method1Matches(text), [ok |-> TRUE, v |-> 0]))


(***************************************************************************)
(* json.loads: objects, arrays, strings without escapes, numbers without   *)
(* exponent, true, false and null; whitespace between tokens; nothing may  *)
(* follow the value.  A result is [ok, v, next]: the value and the         *)
(* position after it, or ok = FALSE for JSONDecodeError.                   *)
(***************************************************************************)
JSONDecodeError == [ok |-> FALSE, v |-> None, next |-> 0]
Parsed(v, next) == [ok |-> TRUE, v |-> v, next |-> next]

RECURSIVE SkipWs(_, _)
SkipWs(s, i) == IF i <= Len(s) /\ Char(s, i) \in Whitespace THEN SkipWs(s, i + 1) ELSE i

\* a string: from the opening quote at i to the next quote, no control character inside
ParseString(s, i) ==
    LET rest == SubSeq(s, i + 1, Len(s))
        q    == Find(rest, "\"")
        body == SubSeq(rest, 1, q - 1)
    IN  IF i > Len(s) \/ Char(s, i) # "\"" \/ q = 0 THEN JSONDecodeError
        ELSE IF \E j \in 1..Len(body) : Char(body, j) \in {"\n", "\t", "\\"} THEN JSONDecodeError
        ELSE Parsed(Str(body), i + q + 1)

\* a number: -? digits (. digits)?, no leading zero before another digit
ParseNumber(s, i) ==
    LET neg   == i <= Len(s) /\ Char(s, i) = "-"
        j     == IF neg THEN i + 1 ELSE i
        n1    == RunLen(Digits, s, j, -1)
        ip    == SubSeq(s, j, j + n1 - 1)
        dot   == j + n1 <= Len(s) /\ Char(s, j + n1) = "."
        n2    == IF dot THEN RunLen(Digits, s, j + n1 + 1, -1) ELSE 0
        frac  == dot /\ n2 > 0
        fp    == IF frac THEN SubSeq(s, j + n1 + 1, j + n1 + n2) ELSE ""
        n1e   == IF n1 > 1 /\ Char(ip, 1) = "0" THEN 1 ELSE n1   \* "012" reads as 0
        abs   == IF n1e < n1 THEN 0
                 ELSE 100 * DigitsVal(ip, 0) + DigitsVal(SubSeq(fp \o "00", 1, 2), 0)
        stop  == IF n1e < n1 THEN j + 1 ELSE IF frac THEN j + n1 + n2 + 1 ELSE j + n1
    IN  IF n1 = 0 THEN JSONDecodeError
        ELSE Parsed(Num(IF neg THEN 0 - abs ELSE abs), stop)

RECURSIVE ParseValue(_, _)
RECURSIVE ParseMembers(_, _, _)
RECURSIVE ParseElements(_, _, _)

\* the members of an object from position i (after "{" or ","), added to acc
ParseMembers(s, i, acc) ==
    LET k  == ParseString(s, SkipWs(s, i))
        c  == SkipWs(s, k.next)
        x  == ParseValue(s, SkipWs(s, c + 1))
        e  == SkipWs(s, x.next)
        d  == (k.v.value :> x.v) @@ acc          \* a repeated key keeps its last value
    IN  IF ~k.ok \/ c > Len(s) \/ Char(s, c) # ":" THEN JSONDecodeError
        ELSE IF ~x.ok \/ e > Len(s) THEN JSONDecodeError
        ELSE IF Char(s, e) = "}" THEN Parsed(Obj(d), e + 1)
        ELSE IF Char(s, e) = "," THEN ParseMembers(s, e + 1, d)
        ELSE JSONDecodeError

\* the elements of an array from position i (after "[" or ","), appended to acc
ParseElements(s, i, acc) ==
    LET x  == ParseValue(s, SkipWs(s, i))
        e  == SkipWs(s, x.next)
    IN  IF ~x.ok \/ e > Len(s) THEN JSONDecodeError
        ELSE IF Char(s, e) = "]" THEN Parsed(List(Append(acc, x.v)), e + 1)
        ELSE IF Char(s, e) = "," THEN ParseElements(s, e + 1, Append(acc, x.v))
        ELSE JSONDecodeError

ParseValue(s, i) ==
    IF i > Len(s) THEN JSONDecodeError
    ELSE LET c == Char(s, i)
             n == SkipWs(s, i + 1)
         IN  CASE c = "{" ->
                    IF n <= Len(s) /\ Char(s, n) = "}" THEN Parsed(EmptyDict, n + 1)
                    ELSE ParseMembers(s, i + 1, <<>>)
               [] c = "[" ->
                    IF n <= Len(s) /\ Char(s, n) = "]" THEN Parsed(List(<<>>), n + 1)
                    ELSE ParseElements(s, i + 1, <<>>)
               [] c = "\"" -> ParseString(s, i)
               [] c \in Digits \cup {"-"} -> ParseNumber(s, i)
               [] StartsAt(s, "true", i) -> Parsed(Bool(TRUE), i + 4)
               [] StartsAt(s, "false", i) -> Parsed(Bool(FALSE), i + 5)
               [] StartsAt(s, "null", i) -> Parsed(None, i + 4)
               [] OTHER -> JSONDecodeError

\* json.loads(s)
json_loads(s) ==
    LET x == ParseValue(s, SkipWs(s, 1))
    IN  IF x.ok /\ SkipWs(s, x.next) = Len(s) + 1 THEN x ELSE JSONDecodeError

(***************************************************************************)
(* parse_gemini_response                                                   *)
(***************************************************************************)
\* response_text[start_idx:end_idx] with start_idx = find('{'), end_idx = rfind('}') + 1
BraceSlice(response_text) ==
    SubSeq(response_text, Find(response_text, "{"), RFind(response_text, "}"))

\* the whole reply, with no slice taken
WholeReply(response_text) == response_text

\* the text the first attempt decodes: the slice when find('{') is not -1
\* (end_idx is rfind + 1, never -1), the whole reply otherwise
FirstAttemptText(response_text) ==
    IF Find(response_text, "{") # 0 THEN BraceSlice(response_text) ELSE response_text

\* The backquote: a TLA+ string cannot hold it, so replies are written with ^
\* where the model service writes a backquote.
Backquote == "^"
Fence == Backquote \o Backquote \o Backquote

\* the except clause: fence markers removed, then stripped
CleanedText(response_text) ==
    Strip(Replace(Replace(response_text, Fence \o "json", ""), Fence, ""))

\* the first attempt alone, with no except clause
parse_first_attempt_only(response_text) ==
    LET first == json_loads(FirstAttemptText(response_text))
    IN  IF first.ok THEN first.v ELSE None
parse_gemini_response(response_text) ==
    LET first  == json_loads(FirstAttemptText(response_text))
        second == json_loads(CleanedText(response_text))
    IN  IF first.ok THEN first.v
        ELSE IF second.ok THEN second.v
        ELSE None


(***************************************************************************)
(* validate_extracted_data                                                 *)
(***************************************************************************)
\* label\.?\s*:?\s*([A-Z0-9\-]+) with re.IGNORECASE; dot: whether \.? follows the label
InvoiceTail(dot) ==
    (IF dot THEN <<Opt({"."})>> ELSE <<>>) \o
    <<Star(Whitespace), Opt({":"}), Star(Whitespace), Plus(Uppers \cup Digits \cup {"-"})>>
InvoicePattern(label, dot) ==
    [atoms |-> IgnoreCase(Lit(label) \o InvoiceTail(dot)),
     cap |-> Len(label) + (IF dot THEN 5 ELSE 4)]

invoice_patterns ==
    <<InvoicePattern("Invoice No", TRUE),
      InvoicePattern("Invoice Number", FALSE),
      InvoicePattern("Bill No", TRUE),
      \* INV-\s*([A-Z0-9\-]+)
      [atoms |-> IgnoreCase(Lit("INV-") \o <<Star(Whitespace), Plus(Uppers \cup Digits \cup {"-"})>>),
       cap |-> 6],
      \* Inv\.?\s*No\.?\s*:?\s*([A-Z0-9\-]+)
      [atoms |-> IgnoreCase(Lit("Inv") \o <<Opt({"."}), Star(Whitespace)>> \o Lit("No")
                            \o InvoiceTail(TRUE)),
       cap |-> 12]>>

\* [0-9]{2}[A-Z]{5}[0-9]{4}[A-Z]{1}[1-9A-Z]{1}[Z]{1}[0-9A-Z]{1}, case sensitive; group(0)
gstin_pattern ==
    [atoms |-> <<Rep(Digits, 2), Rep(Uppers, 5), Rep(Digits, 4), Rep(Uppers, 1),
                 Rep((Digits \ {"0"}) \cup Uppers, 1), Rep({"Z"}, 1), Rep(Digits \cup Uppers, 1)>>,
     cap |-> 1]

total_patterns ==
    <<AmountPattern("Grand Total"), AmountPattern("Total Amount"),
      AmountPattern("Amount Payable"), AmountPattern("Net Amount")>>

\* label\s*:?\s*(\d{2}sep\d{2}sep\d{4}) with re.IGNORECASE
DatePattern(label, sep) ==
    [atoms |-> IgnoreCase(Lit(label) \o
                  <<Star(Whitespace), Opt({":"}), Star(Whitespace),
                    Rep(Digits, 2), One({sep}), Rep(Digits, 2), One({sep}), Rep(Digits, 4)>>),
     cap |-> Len(label) + 4]

date_patterns ==
    <<DatePattern("Date", "-"), DatePattern("Date", "/"),
      DatePattern("Invoice Date", "-"), DatePattern("Bill Date", "-")>>

\* label\s*:?\s*([A-Za-z\s]+) with re.IGNORECASE
PlacePattern(label) ==
    [atoms |-> IgnoreCase(Lit(label) \o
                  <<Star(Whitespace), Opt({":"}), Star(Whitespace), Plus(Letters \cup Whitespace)>>),
     cap |-> Len(label) + 4]

place_patterns == <<PlacePattern("Place of Supply"), PlacePattern("Delivery At"), PlacePattern("City")>>

states ==
    <<"Maharashtra", "Karnataka", "Tamil Nadu", "Delhi", "Uttar Pradesh",
      "Gujarat", "Rajasthan", "Punjab", "Haryana", "Kerala", "West Bengal",
      "Andhra Pradesh", "Telangana", "Madhya Pradesh", "Bihar", "Odisha">>

\* not extracted_data.get(key) or extracted_data.get(key) == "N/A"
MissingText(extracted_data, key) ==
    ~Truthy(Get(extracted_data, key)) \/ EqualsNA(Get(extracted_data, key))
\* not extracted_data.get(key) or extracted_data.get(key) == 0
MissingAmount(extracted_data, key) ==
    ~Truthy(Get(extracted_data, key)) \/ EqualsZero(Get(extracted_data, key))

RECURSIVE LastSearch(_, _, _)
\* the loop without its break: the match of the last pattern that matches
LastSearch(patterns, text, k) ==
    IF k > Len(patterns) THEN NoMatch
    ELSE IF LastSearch(patterns, text, k + 1).found THEN LastSearch(patterns, text, k + 1)
    ELSE Search(patterns[k], text)
RECURSIVE FirstSearch(_, _, _)
RECURSIVE MatchOrNext(_, _, _, _)
\* for pattern in patterns: match = re.search(...); if match: ...; break
\* the match of the first pattern, from number k on, that matches somewhere in text
FirstSearch(patterns, text, k) ==
    IF k > Len(patterns) THEN NoMatch
    ELSE MatchOrNext(patterns, text, k, Search(patterns[k], text))
MatchOrNext(patterns, text, k, match) ==
    IF match.found THEN match ELSE FirstSearch(patterns, text, k + 1)

RECURSIVE FirstAmount(_, _, _)
RECURSIVE AmountOrNext(_, _, _, _)
RECURSIVE FloatOrNext(_, _, _, _)
\* the grand total loop: a match whose text float() refuses is passed over (continue)
FirstAmount(patterns, text, k) ==
    IF k > Len(patterns) THEN ValueError
    ELSE AmountOrNext(patterns, text, k, Search(patterns[k], text))
AmountOrNext(patterns, text, k, match) ==
    IF match.found
    THEN FloatOrNext(patterns, text, k, float(Replace(match.group, ",", "")))
    ELSE FirstAmount(patterns, text, k + 1)
\* the loop ended by the first capture float() refuses
FloatOrStop(patterns, text, k, amount) == amount
FloatOrNext(patterns, text, k, amount) ==
    IF amount.ok THEN amount ELSE FirstAmount(patterns, text, k + 1)

RECURSIVE FirstState(_, _)
\* the first state of the list, from number k on, whose lowercase name occurs in the
\* lowercase text; "" when none does
FirstState(text, k) ==
    IF k > Len(states) THEN ""
    ELSE IF Contains(MapLower(text), MapLower(states[k])) THEN states[k]
    ELSE FirstState(text, k + 1)

\* what a fallback stores: [found, value]
FoundGroup(match) == [found |-> match.found, value |-> Str(match.group)]
FoundStripped(match) == [found |-> match.found, value |-> Str(Strip(match.group))]
FoundAmount(amount) == [found |-> amount.ok, value |-> Num(amount.v)]
FoundPositive(total_gst) == [found |-> total_gst > 0, value |-> Num(total_gst)]
FoundState(state) == [found |-> state # "", value |-> Str(state)]

\* The fallback of each field on the transcript: [found, value], value being what
\* the code stores when found.
Fallback(key, original_text) ==
    CASE key = "invoice_no" -> FoundStripped(FirstSearch(invoice_patterns, original_text, 1))
      [] key = "gstin_no" -> FoundGroup(Search(gstin_pattern, original_text))
      [] key = "grand_total" -> FoundAmount(FirstAmount(total_patterns, original_text, 1))
      [] key = "total_gst" -> FoundPositive(calculate_total_gst_from_text(original_text))
      [] key = "date" -> FoundGroup(FirstSearch(date_patterns, original_text, 1))
      [] key = "place" -> FoundStripped(FirstSearch(place_patterns, original_text, 1))
      [] key = "state" -> FoundState(FirstState(original_text, 1))

\* every fallback branch taken, whatever the field holds
MissingAlways(extracted_data, key) == TRUE
\* whether the code takes the fallback branch of a field
Missing(extracted_data, key) ==
    IF key \in {"grand_total", "total_gst"}
    THEN MissingAmount(extracted_data, key)
    ELSE MissingText(extracted_data, key)

\* one  if missing: ... extracted_data[key] = ...  block
Store(extracted_data, key, fallback) ==
    IF fallback.found THEN Put(extracted_data, key, fallback.value) ELSE extracted_data
Recover(extracted_data, key, original_text) ==
    IF Missing(extracted_data, key)
    THEN Store(extracted_data, key, Fallback(key, original_text))
    ELSE extracted_data

\* the fields with a fallback block, in the order of the blocks
fallback_fields ==
    <<"invoice_no", "gstin_no", "grand_total", "total_gst", "date", "place", "state">>

RECURSIVE RecoverFrom(_, _, _)
\* the blocks from number k on, one after the other
RecoverFrom(extracted_data, k, original_text) ==
    IF k > Len(fallback_fields) THEN extracted_data
    ELSE RecoverFrom(Recover(extracted_data, fallback_fields[k], original_text),
                     k + 1, original_text)

validate_extracted_data(extracted_data, original_text, filename) ==
    LET recovered == RecoverFrom(extracted_data, 1, original_text)
    IN  \* if 'items' not in extracted_data: extracted_data['items'] = []
        IF HasKey(recovered, "items") THEN recovered ELSE Put(recovered, "items", List(<<>>))


(***************************************************************************)
(* datetime.strptime and strftime, for the directives of formats_to_try:   *)
(* %d %m %Y %y %b %B, white space (one or more white-space characters) and *)
(* literal characters.  The format is matched at the start of the string,  *)
(* alternatives in the order of the library's regular expressions; the     *)
(* match must then end the string, and the day must exist in its month.    *)
(***************************************************************************)
MonthAbbreviations ==
    <<"jan", "feb", "mar", "apr", "may", "jun", "jul", "aug", "sep", "oct", "nov", "dec">>
MonthNames ==
    <<"january", "february", "march", "april", "may", "june",
      "july", "august", "september", "october", "november", "december">>

RECURSIVE Tokens(_, _)
\* the directives and literal characters of a format, from position i on
Tokens(fmt, i) ==
    IF i > Len(fmt) THEN <<>>
    ELSE IF Char(fmt, i) = "%" THEN <<SubSeq(fmt, i, i + 1)>> \o Tokens(fmt, i + 2)
    ELSE <<Char(fmt, i)>> \o Tokens(fmt, i + 1)

\* a choice of one directive at a position: the characters it takes and its value
Choice(len, val) == [len |-> len, val |-> val]

\* the names of the list that start, in any case, at position i of s (at most one does)
NameChoices(names, s, i) ==
    LET at == {n \in 1..Len(names) : StartsAt(MapLower(s), names[n], i)}
    IN  IF at = {} THEN <<>> ELSE <<Choice(Len(names[Min(at)]), Min(at))>>

\* The ways directive or literal tok matches at position i of s, in the order
\* the regular expression of the library tries them.
Choices(tok, s, i) ==
    LET c1 == IF i <= Len(s) THEN Char(s, i) ELSE ""
        c2 == IF i + 1 <= Len(s) THEN Char(s, i + 1) ELSE ""
        two == DigitsVal(c1 \o c2, 0)
        d1 == c1 \in Digits
        d2 == c2 \in Digits
    IN  CASE tok = "%d" ->      \* 3[0-1]|[1-2]\d|0[1-9]|[1-9]| [1-9]
                (IF d1 /\ d2 /\ two \in 1..31 THEN <<Choice(2, two)>> ELSE <<>>)
                \o (IF d1 /\ c1 # "0" THEN <<Choice(1, DigitVal(c1))>> ELSE <<>>)
                \o (IF c1 = " " /\ d2 /\ c2 # "0" THEN <<Choice(2, DigitVal(c2))>> ELSE <<>>)
          [] tok = "%m" ->      \* 1[0-2]|0[1-9]|[1-9]
                (IF d1 /\ d2 /\ two \in 1..12 THEN <<Choice(2, two)>> ELSE <<>>)
                \o (IF d1 /\ c1 # "0" THEN <<Choice(1, DigitVal(c1))>> ELSE <<>>)
          [] tok = "%Y" ->      \* \d\d\d\d
                IF i + 3 <= Len(s) /\ IsDigits(SubSeq(s, i, i + 3))
                THEN <<Choice(4, DigitsVal(SubSeq(s, i, i + 3), 0))>> ELSE <<>>
          [] tok = "%y" ->      \* \d\d: 00-68 is 2000-2068, 69-99 is 1969-1999
                IF d1 /\ d2
                THEN <<Choice(2, IF two <= 68 THEN 2000 + two ELSE 1900 + two)>> ELSE <<>>
          [] tok = "%b" -> NameChoices(MonthAbbreviations, s, i)
          [] tok = "%B" -> NameChoices(MonthNames, s, i)
          [] tok \in Whitespace ->      \* \s+, greedy
                LET n == RunLen(Whitespace, s, i, -1)
                IN  [j \in 1..n |-> Choice(n + 1 - j, 0)]
          [] OTHER -> IF c1 = tok THEN <<Choice(1, 0)>> ELSE <<>>

\* the date read so far, with the value of directive tok
WithField(date, tok, val) ==
    CASE tok = "%d" -> [date EXCEPT !.day = val]
      [] tok \in {"%m", "%b", "%B"} -> [date EXCEPT !.month = val]
      [] tok \in {"%Y", "%y"} -> [date EXCEPT !.year = val]
      [] OTHER -> date

NoDate == [ok |-> FALSE, stop |-> 0, year |-> 1900, month |-> 1, day |-> 1]

RECURSIVE MatchTokens(_, _, _, _, _)
RECURSIVE TryChoices(_, _, _, _, _, _)
\* the first match of tokens k.. at position i of s, in backtracking order
MatchTokens(toks, k, s, i, date) ==
    IF k > Len(toks) THEN [date EXCEPT !.ok = TRUE, !.stop = i]
    ELSE TryChoices(toks, k, s, i, date, 1)
TryChoices(toks, k, s, i, date, j) ==
    LET choices == Choices(toks[k], s, i)
    IN  IF j > Len(choices) THEN NoDate
        ELSE LET r == MatchTokens(toks, k + 1, s, i + choices[j].len,
                                  WithField(date, toks[k], choices[j].val))
             IN  IF r.ok THEN r ELSE TryChoices(toks, k, s, i, date, j + 1)

IsLeap(year) == (year % 4 = 0 /\ year % 100 # 0) \/ year % 400 = 0
DaysIn(month, year) ==
    IF month = 2 THEN (IF IsLeap(year) THEN 29 ELSE 28)
    ELSE IF month \in {4, 6, 9, 11} THEN 30 ELSE 31

\* datetime.strptime(data_string, fmt): the date, or ok = FALSE for ValueError
strptime(data_string, fmt) ==
    LET r == MatchTokens(Tokens(fmt, 1), 1, data_string, 1, NoDate)
    IN  IF /\ r.ok /\ r.stop = Len(data_string) + 1
           /\ r.year >= 1 /\ r.day <= DaysIn(r.month, r.year)     \* datetime(year, month, day)
        THEN r ELSE NoDate

\* date_obj.strftime('%Y.%m.%d'): the C library writes %Y without padding
strftime(date_obj) ==
    Decimal(date_obj.year) \o "." \o TwoDigits(date_obj.month) \o "." \o TwoDigits(date_obj.day)

(***************************************************************************)
(* format_date_to_ymd                                                      *)
(***************************************************************************)
\* month_map.items(), in insertion order ('may' occurs twice and keeps its first place)
month_map ==
    <<<<"jan", "01">>, <<"feb", "02">>, <<"mar", "03">>, <<"apr", "04">>, <<"may", "05">>,
      <<"jun", "06">>, <<"jul", "07">>, <<"aug", "08">>, <<"sep", "09">>, <<"oct", "10">>,
      <<"nov", "11">>, <<"dec", "12">>,
      <<"january", "01">>, <<"february", "02">>, <<"march", "03">>, <<"april", "04">>,
      <<"june", "06">>, <<"july", "07">>, <<"august", "08">>, <<"september", "09">>,
      <<"october", "10">>, <<"november", "11">>, <<"december", "12">>>>

\* the same list with its numeric formats read month first
formats_month_first ==
    <<"%m-%d-%Y", "%m-%d-%y", "%Y-%m-%d", "%m/%d/%Y", "%m/%d/%y",
      "%m.%d.%Y", "%m.%d.%y", "%Y.%m.%d",
      "%b-%d-%Y", "%B-%d-%Y", "%b %d, %Y", "%B %d, %Y",
      "%d-%b-%Y", "%d-%B-%Y", "%d %b %Y", "%d %B %Y",
      "%d-%b-%y", "%d-%B-%y", "%d %b %y", "%d %B %y">>

formats_to_try ==
    <<"%d-%m-%Y", "%d-%m-%y", "%Y-%m-%d", "%d/%m/%Y", "%d/%m/%y",
      "%d.%m.%Y", "%d.%m.%y", "%Y.%m.%d",
      "%d-%b-%Y", "%d-%B-%Y", "%d %b %Y", "%d %B %Y",
      "%b-%d-%Y", "%B-%d-%Y", "%b %d, %Y", "%B %d, %Y",
      "%d-%b-%y", "%d-%B-%y", "%d %b %y", "%d %B %y">>

\* the date string with nothing removed or replaced
UncleanedDate(date_str) == date_str

\* date_str.strip().replace('/', '-').replace('.', '-')
CleanDate(date_str) == Replace(Replace(Strip(date_str), "/", "-"), ".", "-")

\* the number of the first format, from k on, that parses date_str; 0 when none does
FirstFormat(date_str, k) ==
    LET ok == {j \in k..Len(formats_to_try) : strptime(date_str, formats_to_try[j]).ok}
    IN  IF ok = {} THEN 0 ELSE Min(ok)

\* The manual scan of text months on the cleaned string: [returned, raised, value].
\* returned: the scan returned value; raised: int(year) raised ValueError (the
\* scan's except clause passes); neither: no month text, or fewer than three parts.
ManualScan(date_str) ==
    LET date_lower == MapLower(date_str)
        found == {n \in 1..Len(month_map) : Contains(date_lower, month_map[n][1])}
        parts == Split(Replace(Replace(Replace(date_str, ",", " "), "-", " "), "/", " "))
        day   == ZFill2(parts[1])
        year  == parts[3]
    IN  IF found = {} \/ Len(parts) < 3
        THEN [returned |-> FALSE, raised |-> FALSE, value |-> ""]
        ELSE IF Len(year) = 2 /\ ~IsDigits(year)
        THEN [returned |-> FALSE, raised |-> TRUE, value |-> ""]
        ELSE [returned |-> TRUE, raised |-> FALSE,
              value |-> (IF Len(year) = 2
                         THEN (IF DigitsVal(year, 0) <= 50 THEN "20" ELSE "19") \o year
                         ELSE year)
                        \o "." \o month_map[Min(found)][2] \o "." \o day]

format_date_to_ymd(date_str) ==
    LET cleaned == CleanDate(date_str)
        fmt     == FirstFormat(cleaned, 1)
        scan    == ManualScan(cleaned)
    IN  IF fmt # 0 THEN strftime(strptime(cleaned, formats_to_try[fmt]))
        ELSE IF scan.returned THEN scan.value
        ELSE cleaned


(***************************************************************************)
(* The table page.  An exception a function raises is the value            *)
(* Raises(name).  Amounts are numbers in hundredths; True and False count  *)
(* as 1 and 0, as they do in Python arithmetic.                            *)
(***************************************************************************)
Raises(exception) == [type |-> "exception", value |-> exception]
TypeError == Raises("TypeError")
AttributeError == Raises("AttributeError")

IsNumber(x) == x.type \in {"num", "bool"}
NumberOf(x) == IF x.type = "bool" THEN (IF x.value THEN 100 ELSE 0) ELSE x.value

\* dict.get(key, default)
GetOr(d, key, default) == IF HasKey(d, key) THEN Get(d, key) ELSE default

\* a - b
Minus(a, b) == IF IsNumber(a) /\ IsNumber(b) THEN Num(NumberOf(a) - NumberOf(b)) ELSE TypeError

RECURSIVE SumOfGrandTotal(_, _, _, _)
\* the same sum, always taken over grand_total
SumOfGrandTotal(invoices, key, k, acc) ==
    IF k > Len(invoices) THEN Num(acc)
    ELSE IF ~IsNumber(GetOr(invoices[k], "grand_total", Num(0))) THEN TypeError
    ELSE SumOfGrandTotal(invoices, key, k + 1,
                         acc + NumberOf(GetOr(invoices[k], "grand_total", Num(0))))

RECURSIVE SumOfKey(_, _, _, _)
\* sum(invoice.get(key, 0) for invoice in invoices): 0 + the first + the second ...
SumOfKey(invoices, key, k, acc) ==
    IF k > Len(invoices) THEN Num(acc)
    ELSE IF ~IsNumber(GetOr(invoices[k], key, Num(0))) THEN TypeError
    ELSE SumOfKey(invoices, key, k + 1, acc + NumberOf(GetOr(invoices[k], key, Num(0))))

\* the dict calculate_summary_statistics returns, once both sums are computed
SummaryOf(total_invoices, total_grand_total, total_gst_amount) ==
    IF total_grand_total.type = "exception" THEN total_grand_total
    ELSE IF total_gst_amount.type = "exception" THEN total_gst_amount
    ELSE Obj([total_invoices |-> Num(100 * total_invoices),
              total_grand_total |-> total_grand_total,
              total_gst_amount |-> total_gst_amount,
              total_taxable_amount |-> Minus(total_grand_total, total_gst_amount)])

calculate_summary_statistics(invoices) ==
    SummaryOf(Len(invoices), SumOfKey(invoices, "grand_total", 1, 0),
              SumOfKey(invoices, "total_gst", 1, 0))

\* format(x, ",.2f")
ThreeDigits(n) == Char(DigitChars, (n \div 100) + 1) \o TwoDigits(n % 100)
RECURSIVE Grouped(_)
Grouped(n) == IF n < 1000 THEN Decimal(n) ELSE Grouped(n \div 1000) \o "," \o ThreeDigits(n % 1000)
Money(x) ==
    IF x < 0 THEN "-" \o Grouped((0 - x) \div 100) \o "." \o TwoDigits((0 - x) % 100)
    ELSE Grouped(x \div 100) \o "." \o TwoDigits(x % 100)

\* the columns of a row that state the invoice, and those that state an item
InvoiceCells(invoice) ==
    ("File Name" :> GetOr(invoice, "file_name", Str("")))
    @@ ("Invoice Number" :> GetOr(invoice, "invoice_no", Str("")))
    @@ ("Invoice Date" :> GetOr(invoice, "date", Str("")))
    @@ ("Seller Name" :> GetOr(invoice, "seller_name", Str("")))
    @@ ("Seller GSTIN" :> GetOr(invoice, "gstin_no", Str("")))
    @@ ("Seller Place" :> GetOr(invoice, "place", Str("")))
    @@ ("Seller State" :> GetOr(invoice, "state", Str("")))
    @@ ("Customer Name" :> GetOr(invoice, "customer_name", Str("")))
    @@ ("Grand Total" :> GetOr(invoice, "grand_total", Num(0)))
    @@ ("Total GST" :> GetOr(invoice, "total_gst", Num(0)))
    @@ ("Taxable Amount" :>
            Minus(GetOr(invoice, "grand_total", Num(0)), GetOr(invoice, "total_gst", Num(0))))

ItemCells(item) ==
    ("Item Name" :> GetOr(item, "item_name", Str("")))
    @@ ("Item Category" :> GetOr(item, "category", Str("")))
    @@ ("HSN Code" :> GetOr(item, "hsn_code", Str("")))
    @@ ("Quantity" :> GetOr(item, "quantity", Str("")))
    @@ ("Unit Price" :> GetOr(item, "unit_price", Str("")))
    @@ ("Item Amount" :> GetOr(item, "amount", Str("")))
    @@ ("GST Rate" :> GetOr(item, "gst_rate", Str("")))

ItemColumns ==
    {"Item Name", "Item Category", "HSN Code", "Quantity", "Unit Price", "Item Amount", "GST Rate"}
NoItemCells == [column \in ItemColumns |-> Str("N/A")]

\* the subtraction in the last column raises when a total is no number
TaxableRaises(invoice) ==
    Minus(GetOr(invoice, "grand_total", Num(0)),
          GetOr(invoice, "total_gst", Num(0))).type = "exception"

RECURSIVE ItemRowsFrom(_, _, _, _)
\* for item in invoice['items']: csv_rows.append({...}); an item that is no
\* dict has no get
ItemRowsFrom(invoice, items, k, csv_rows) ==
    IF k > Len(items) THEN List(csv_rows)
    ELSE IF items[k].type # "obj" THEN AttributeError
    ELSE IF TaxableRaises(invoice) THEN TypeError
    ELSE ItemRowsFrom(invoice, items, k + 1,
                      Append(csv_rows, Obj(InvoiceCells(invoice) @@ ItemCells(items[k]))))

\* the same rows, an invoice without items getting none
RowsOfInvoiceWithItems(invoice) ==
    IF HasKey(invoice, "items") /\ Truthy(Get(invoice, "items"))
    THEN CASE Get(invoice, "items").type = "list" ->
                  ItemRowsFrom(invoice, Get(invoice, "items").value, 1, <<>>)
           [] Get(invoice, "items").type \in {"str", "obj"} -> AttributeError
           [] OTHER -> TypeError
    ELSE List(<<>>)

\* the rows of one invoice.  Iterating a string or a dict yields strings,
\* which have no get; a number is not iterable.
RowsOfInvoice(invoice) ==
    IF HasKey(invoice, "items") /\ Truthy(Get(invoice, "items"))
    THEN CASE Get(invoice, "items").type = "list" ->
                  ItemRowsFrom(invoice, Get(invoice, "items").value, 1, <<>>)
           [] Get(invoice, "items").type \in {"str", "obj"} -> AttributeError
           [] OTHER -> TypeError
    ELSE IF TaxableRaises(invoice) THEN TypeError
    ELSE List(<<Obj(InvoiceCells(invoice) @@ NoItemCells)>>)

RECURSIVE CsvRowsFrom(_, _, _)
CsvRowsAfter(invoices, k, csv_rows, rows) ==
    IF rows.type = "exception" THEN rows
    ELSE CsvRowsFrom(invoices, k + 1, csv_rows \o rows.value)
\* for invoice in invoices: ...
CsvRowsFrom(invoices, k, csv_rows) ==
    IF k > Len(invoices) THEN List(csv_rows)
    ELSE CsvRowsAfter(invoices, k, csv_rows, RowsOfInvoice(invoices[k]))

Columns == ItemColumns \cup DOMAIN InvoiceCells(EmptyDict)
SummaryRow(file_name) == Obj([column \in Columns |->
                                 IF column = "File Name" THEN Str(file_name) ELSE Str("")])

\* summary_rows
SummaryRows(stats_dict) ==
    <<SummaryRow("SUMMARY STATISTICS"),
      SummaryRow("Total Invoices: " \o Decimal(Get(stats_dict, "total_invoices").value \div 100)),
      SummaryRow("Total Grand Total: " \o Money(Get(stats_dict, "total_grand_total").value)),
      SummaryRow("Total GST Amount: " \o Money(Get(stats_dict, "total_gst_amount").value)),
      SummaryRow("Total Taxable Amount: " \o Money(Get(stats_dict, "total_taxable_amount").value))>>

\* pd.concat([df, summary_df], ignore_index=True)
Concat(df, stats_dict) ==
    IF df.type = "exception" THEN df
    ELSE IF stats_dict.type = "exception" THEN stats_dict
    ELSE List(df.value \o SummaryRows(stats_dict))

prepare_enhanced_csv_data(invoices) ==
    Concat(CsvRowsFrom(invoices, 1, <<>>), calculate_summary_statistics(invoices))


(***************************************************************************)
(* Bounds of the model.                                                    *)
(***************************************************************************)
MaxDocs == 2        \* the most documents uploaded in one batch
MaxRuns == 2        \* the most times the Extract button is pressed
MaxLines == 2       \* the most lines of a transcript given to calculate_total_gst_from_text
MaxSessions == 3    \* the sessions that call create_user at the same time
MaxItems == 2       \* the most entries Add Item puts in bill_items
MaxRows == 3        \* the most records the verification buttons add to verified_invoices

(***************************************************************************)
(* The state.                                                              *)
(***************************************************************************)
VARIABLES
    \* multi_invoice_extraction_page: the upload widget, the checkbox, st.session_state
    uploaded_invoices,      \* the uploaded files, in upload order
    manual_mode,            \* the "Enable Manual Verification Mode" checkbox
    verified_invoices,
    all_extracted_data,
    current_file_index,
    extraction_complete,
    show_final_table,
    same_list,              \* verified_invoices and all_extracted_data are one list object
    \* the handler of the Extract button
    pc,                     \* "idle", "loop" (at the head of the for loop), "call" (inside
                            \* extract_invoice_data), or the position of a function harness
    run,                    \* how many times Extract was pressed
    loop_i,                 \* the loop index i, counted from 1
    \* extract_invoice_data: its argument, position, locals and return value
    uploaded_file,
    epc,
    file_path,              \* whether the local file_path is bound
    invoice_text,
    response,
    extracted_json,
    return_value,
    \* the world outside
    temp_files,             \* the temporary files on disk: <<run, i, "upload" or "processed">>
    llm_log,                \* the calls the model service received: <<run, i>> each
    call_log,               \* the calls of extract_invoice_data: <<run, i>> each
    \* calculate_total_gst_from_text and format_date_to_ymd called on their own
    gst_lines,              \* the lines gst_text is made of, each with what it states
    gst_text,
    gst_total,              \* in hundredths
    date_input,
    date_intent,            \* the calendar date <<day, month, year>> date_input spells, or <<>>
    date_output,
    \* the verification form and the table page
    pressed,                \* the form button pressed last: "verify", "skip", "previous" or ""
    form_values,            \* the values of the form's nine inputs when Verify was pressed
    stats,                  \* what calculate_summary_statistics returned or raised
    csv_data,               \* what prepare_enhanced_csv_data returned or raised
    \* main_app.py: st.session_state, the users table, and what the script run drew
    current_page,
    authenticated,
    user,
    auth_mode,              \* "" while the key is absent
    current_nav,            \* "" while the key is absent
    users,                  \* the rows of the users table, in order of their id
    rendered,               \* what the last run of main() drew
    signed_in,              \* the email and password verify_user accepted since the last
                            \* Sign Out, <<>> when there was no such call
    \* bill_generation_page: st.session_state and what the last script run drew
    bill_items,
    gstin_number,           \* "" while the key is absent
    bill_pressed,           \* the button pressed last: "add", "clear", "gstin" or ""
    bill_form,              \* the inputs and the catalog lookup of the last Add Item
    bill_shown,             \* the three totals on the page, in hundredths, or NoTotals
    \* create_user called from several sessions at once
    signup,                 \* for each session: where its call is, its form, what it returned
    db_lock                 \* the session whose connection holds the write lock, or 0

session_vars ==
    <<uploaded_invoices, manual_mode, verified_invoices, all_extracted_data,
      current_file_index, extraction_complete, show_final_table, same_list, run, loop_i>>
extract_vars ==
    <<uploaded_file, epc, file_path, invoice_text, response, extracted_json, return_value>>
world_vars == <<temp_files, llm_log, call_log>>
gst_vars == <<gst_lines, gst_text, gst_total>>
date_vars == <<date_input, date_intent, date_output>>
page_vars == <<pressed, form_values, stats, csv_data>>
auth_vars ==
    <<current_page, authenticated, user, auth_mode, current_nav, users, rendered, signed_in>>
bill_vars == <<bill_items, gstin_number, bill_pressed, bill_form, bill_shown>>
app2_vars ==
    <<session_vars, pc, extract_vars, world_vars, gst_vars, date_vars, page_vars, bill_vars>>
signup_vars == <<signup, db_lock>>
vars == <<app2_vars, auth_vars, signup_vars>>

(***************************************************************************)
(* Uploaded documents.  A document is what the code reads of the upload    *)
(* and what the world answers for it: its name and media type, whether     *)
(* writing the temporary copy works, how each text acquisition attempt     *)
(* ends (one for a PDF; for an image the three approaches, the first       *)
(* ending "open_error" before or "ocr_error" after the recompressed image  *)
(* was written), the transcript a successful attempt yields, and the       *)
(* model service's answer.                                                 *)
(***************************************************************************)
Doc(name, type, save, acquire, text, llm, reply) ==
    [name |-> name, type |-> type, save |-> save, acquire |-> acquire,
     text |-> text, llm |-> llm, reply |-> reply]

NoDoc == Doc("", "", "ok", <<"ok">>, "", "ok", "")

\* the transcript text acquisition yields: that of the first attempt that works
IsPdf(doc) == doc.type = "application/pdf"
AcquireWorks(doc) == \E k \in 1..Len(doc.acquire) : doc.acquire[k] = "ok"

(***************************************************************************)
(* extract_invoice_data, step by step.  An exception anywhere reaches the  *)
(* handler at its end, which removes the temporary copy when file_path is  *)
(* bound and the file exists, and returns None.                            *)
(***************************************************************************)
UploadCopy == <<run, loop_i, "upload">>
ProcessedImage == <<run, loop_i, "processed">>

\* except Exception as e: ... os.unlink(file_path) ... return None
ExceptionHandler(files) ==
    /\ temp_files' = (IF file_path THEN files \ {UploadCopy} ELSE files)
    /\ return_value' = None
    /\ epc' = "returned"

\* a plain  return None
ReturnNone ==
    /\ return_value' = None
    /\ epc' = "returned"

\* tempfile.NamedTemporaryFile(delete=False), tmp.write(uploaded_file.getvalue())
SaveUpload ==
    /\ pc = "call" /\ epc = "save"
    /\ IF uploaded_file.save = "ok"
       THEN /\ file_path' = TRUE
            /\ temp_files' = temp_files \cup {UploadCopy}
            /\ epc' = "read"
            /\ UNCHANGED return_value
       ELSE /\ file_path' = FALSE
            /\ ExceptionHandler(temp_files \cup {UploadCopy})
    /\ invoice_text' = ""
    /\ UNCHANGED <<session_vars, pc, uploaded_file, response, extracted_json,
                   llm_log, call_log, gst_vars, date_vars, page_vars, auth_vars, bill_vars, signup_vars>>

\* PyPDFLoader(file_path).load(); on an error the copy is removed and None returned
ReadPdf ==
    /\ pc = "call" /\ epc = "read" /\ IsPdf(uploaded_file)
    /\ IF uploaded_file.acquire[1] = "ok"
       THEN /\ invoice_text' = uploaded_file.text
            /\ epc' = "cleanup"
            /\ UNCHANGED <<temp_files, return_value>>
       ELSE /\ temp_files' = temp_files \ {UploadCopy}
            /\ ReturnNone
            /\ UNCHANGED invoice_text
    /\ UNCHANGED <<session_vars, pc, uploaded_file, file_path, response, extracted_json,
                   llm_log, call_log, gst_vars, date_vars, page_vars, auth_vars, bill_vars, signup_vars>>

\* The three image approaches.  Approach 1 writes file_path + "_processed.jpg"
\* and removes it only after its OCR succeeded; when all three approaches
\* fail the code returns None at once.
ReadImage ==
    /\ pc = "call" /\ epc = "read" /\ ~IsPdf(uploaded_file)
    /\ temp_files' = (IF uploaded_file.acquire[1] = "ocr_error"
                      THEN temp_files \cup {ProcessedImage} ELSE temp_files)
    /\ IF AcquireWorks(uploaded_file)
       THEN /\ invoice_text' = uploaded_file.text
            /\ epc' = "cleanup"
            /\ UNCHANGED return_value
       ELSE /\ ReturnNone
            /\ UNCHANGED invoice_text
    /\ UNCHANGED <<session_vars, pc, uploaded_file, file_path, response, extracted_json,
                   llm_log, call_log, gst_vars, date_vars, page_vars, auth_vars, bill_vars, signup_vars>>

\* the same step without the test of the transcript
CleanupWithoutCheck ==
    /\ pc = "call" /\ epc = "cleanup"
    /\ temp_files' = temp_files \ {UploadCopy}
    /\ epc' = "invoke"
    /\ UNCHANGED <<session_vars, pc, uploaded_file, file_path, invoice_text, response,
                   extracted_json, return_value, llm_log, call_log, gst_vars, date_vars, page_vars, auth_vars, bill_vars, signup_vars>>

\* os.unlink(file_path); if not invoice_text.strip(): return None
CleanupAndCheck ==
    /\ pc = "call" /\ epc = "cleanup"
    /\ temp_files' = temp_files \ {UploadCopy}
    /\ IF Strip(invoice_text) = ""
       THEN ReturnNone
       ELSE /\ epc' = "invoke"
            /\ UNCHANGED return_value
    /\ UNCHANGED <<session_vars, pc, uploaded_file, file_path, invoice_text, response,
                   extracted_json, llm_log, call_log, gst_vars, date_vars, page_vars, auth_vars, bill_vars, signup_vars>>

\* response = llm.invoke(prompt): one call to the model service, which may raise
InvokeModel ==
    /\ pc = "call" /\ epc = "invoke"
    /\ llm_log' = Append(llm_log, <<run, loop_i>>)
    /\ IF uploaded_file.llm = "ok"
       THEN /\ response' = uploaded_file.reply
            /\ epc' = "parse"
            /\ UNCHANGED <<temp_files, return_value>>
       ELSE /\ ExceptionHandler(temp_files)
            /\ UNCHANGED response
    /\ UNCHANGED <<session_vars, pc, uploaded_file, file_path, invoice_text, extracted_json,
                   call_log, gst_vars, date_vars, page_vars, auth_vars, bill_vars, signup_vars>>

\* extracted_json = parse_gemini_response(response.content)
ParseResponse ==
    /\ pc = "call" /\ epc = "parse"
    /\ extracted_json' = parse_gemini_response(response)
    /\ epc' = "validate"
    /\ UNCHANGED <<session_vars, pc, uploaded_file, file_path, invoice_text, response,
                   return_value, world_vars, gst_vars, date_vars, page_vars, auth_vars, bill_vars, signup_vars>>

\* if extracted_json: extracted_json = validate_extracted_data(...)
\* A reply that decodes to something other than a dict has no get: AttributeError.
Validate ==
    /\ pc = "call" /\ epc = "validate"
    /\ IF ~Truthy(extracted_json)
       THEN /\ epc' = "format"
            /\ UNCHANGED <<extracted_json, temp_files, return_value>>
       ELSE IF extracted_json.type = "obj"
       THEN /\ extracted_json' =
                   validate_extracted_data(extracted_json, invoice_text, uploaded_file.name)
            /\ epc' = "format"
            /\ UNCHANGED <<temp_files, return_value>>
       ELSE /\ ExceptionHandler(temp_files)
            /\ UNCHANGED extracted_json
    /\ UNCHANGED <<session_vars, pc, uploaded_file, file_path, invoice_text, response,
                   llm_log, call_log, gst_vars, date_vars, page_vars, auth_vars, bill_vars, signup_vars>>

\* format_date_to_ymd(date_str) for a date of any type: a value that is no
\* string has no strip, and the function's last except clause returns it as it is
FormatDateValue(date_value) ==
    IF date_value.type = "str" THEN Str(format_date_to_ymd(date_value.value)) ELSE date_value

\* the record after  if extracted_json and "date" in extracted_json: ...
WithFormattedDate(record) ==
    IF Truthy(record) /\ HasKey(record, "date") /\ Truthy(Get(record, "date"))
    THEN Put(record, "date", FormatDateValue(Get(record, "date")))
    ELSE record

\* the date is normalized, and the record returned
FormatAndReturn ==
    /\ pc = "call" /\ epc = "format"
    /\ extracted_json' = WithFormattedDate(extracted_json)
    /\ return_value' = extracted_json'
    /\ epc' = "returned"
    /\ UNCHANGED <<session_vars, pc, uploaded_file, file_path, invoice_text, response,
                   world_vars, gst_vars, date_vars, page_vars, auth_vars, bill_vars, signup_vars>>

(***************************************************************************)
(* multi_invoice_extraction_page: the Extract button.                      *)
(***************************************************************************)
\* the button without the reset of all_extracted_data
PressExtractKeeping ==
    /\ pc = "idle" /\ uploaded_invoices # <<>> /\ run < MaxRuns
    /\ run' = run + 1
    /\ verified_invoices' = <<>>
    /\ current_file_index' = 0
    /\ extraction_complete' = FALSE
    /\ show_final_table' = FALSE
    /\ same_list' = FALSE
    /\ loop_i' = 1
    /\ pc' = "loop"
    /\ UNCHANGED <<uploaded_invoices, manual_mode, all_extracted_data, extract_vars, world_vars,
                   gst_vars, date_vars, page_vars, auth_vars, bill_vars, signup_vars>>

\* if st.button("Extract Data from All Invoices"): the session state is reset
PressExtract ==
    /\ pc = "idle" /\ uploaded_invoices # <<>> /\ run < MaxRuns
    /\ run' = run + 1
    /\ verified_invoices' = <<>>
    /\ current_file_index' = 0
    /\ extraction_complete' = FALSE
    /\ show_final_table' = FALSE
    /\ all_extracted_data' = <<>>
    /\ same_list' = FALSE
    /\ loop_i' = 1
    /\ pc' = "loop"
    /\ UNCHANGED <<uploaded_invoices, manual_mode, extract_vars, world_vars, gst_vars, date_vars, page_vars, auth_vars, bill_vars, signup_vars>>

\* for i, uploaded_file in enumerate(uploaded_invoices): extract_invoice_data(uploaded_file)
CallExtract ==
    /\ pc = "loop" /\ loop_i <= Len(uploaded_invoices)
    /\ uploaded_file' = uploaded_invoices[loop_i]
    /\ epc' = "save"
    /\ file_path' = FALSE
    /\ invoice_text' = ""
    /\ response' = ""
    /\ extracted_json' = None
    /\ return_value' = None
    /\ call_log' = Append(call_log, <<run, loop_i>>)
    /\ pc' = "call"
    /\ UNCHANGED <<session_vars, temp_files, llm_log, gst_vars, date_vars, page_vars, auth_vars, bill_vars, signup_vars>>

\* the same step with a loop that stops at the first document without a record
AppendResultStopping ==
    /\ pc = "call" /\ epc = "returned"
    /\ all_extracted_data' =
          (IF Truthy(return_value)
           THEN Append(all_extracted_data, Put(return_value, "file_name", Str(uploaded_file.name)))
           ELSE all_extracted_data)
    /\ loop_i' = (IF Truthy(return_value) THEN loop_i + 1 ELSE Len(uploaded_invoices) + 1)
    /\ pc' = "loop"
    /\ epc' = "idle"
    /\ UNCHANGED <<uploaded_invoices, manual_mode, verified_invoices, current_file_index,
                   extraction_complete, show_final_table, same_list, run,
                   uploaded_file, file_path, invoice_text, response, extracted_json, return_value,
                   world_vars, gst_vars, date_vars, page_vars, auth_vars, bill_vars, signup_vars>>

\* if extracted_data: extracted_data["file_name"] = uploaded_file.name; append
AppendResult ==
    /\ pc = "call" /\ epc = "returned"
    /\ all_extracted_data' =
          (IF Truthy(return_value)
           THEN Append(all_extracted_data, Put(return_value, "file_name", Str(uploaded_file.name)))
           ELSE all_extracted_data)
    /\ loop_i' = loop_i + 1
    /\ pc' = "loop"
    /\ epc' = "idle"
    /\ UNCHANGED <<uploaded_invoices, manual_mode, verified_invoices, current_file_index,
                   extraction_complete, show_final_table, same_list, run,
                   uploaded_file, file_path, invoice_text, response, extracted_json, return_value,
                   world_vars, gst_vars, date_vars, page_vars, auth_vars, bill_vars, signup_vars>>

\* After the loop: extraction_complete, the return when nothing was extracted,
\* the table filled at once without manual mode, and the rest of the script
\* run, which sets show_final_table.
FinishExtract ==
    /\ pc = "loop" /\ loop_i > Len(uploaded_invoices)
    /\ extraction_complete' = TRUE
    /\ verified_invoices' =
          (IF all_extracted_data # <<>> /\ ~manual_mode THEN all_extracted_data
           ELSE verified_invoices)
    /\ same_list' = (all_extracted_data # <<>> /\ ~manual_mode)
    /\ show_final_table' =
          (IF all_extracted_data = <<>> THEN show_final_table
           ELSE \/ ~manual_mode
                \/ current_file_index >= Len(all_extracted_data))
    /\ pc' = "idle"
    /\ UNCHANGED <<uploaded_invoices, manual_mode, all_extracted_data, current_file_index,
                   run, loop_i, extract_vars, world_vars, gst_vars, date_vars, page_vars, auth_vars, bill_vars, signup_vars>>

(***************************************************************************)
(* The two functions called on their own.                                  *)
(***************************************************************************)
ComputeGst ==
    /\ pc = "gst"
    /\ gst_total' = calculate_total_gst_from_text(gst_text)
    /\ pc' = "gst_done"
    /\ UNCHANGED <<session_vars, extract_vars, world_vars, gst_lines, gst_text, date_vars,
                   page_vars, auth_vars, bill_vars, signup_vars>>

FormatDate ==
    /\ pc = "date"
    /\ date_output' = format_date_to_ymd(date_input)
    /\ pc' = "date_done"
    /\ UNCHANGED <<session_vars, extract_vars, world_vars, gst_vars, date_input, date_intent,
                   page_vars, auth_vars, bill_vars, signup_vars>>


(***************************************************************************)
(* show_manual_verification_interface, and the rest of the page script,    *)
(* which every interaction with a widget runs again.                       *)
(***************************************************************************)
\* float(x) returns (of the strings, those of digits and a point are modelled)
FloatWorks(x) == IsNumber(x) \/ (x.type = "str" /\ float(x.value).ok)
FloatOf(x) == IF x.type = "str" THEN float(x.value).v ELSE NumberOf(x)

\* items = current_data.get('items', []); if not items: items = [{}]
FormItems(current_data) ==
    IF Truthy(GetOr(current_data, "items", List(<<>>))) THEN Get(current_data, "items")
    ELSE List(<<EmptyDict>>)

\* the inputs of one item are built: item.get(...), float(item.get('quantity', 1)), ...
ItemInputsWork(item) ==
    /\ item.type = "obj"
    /\ FloatWorks(GetOr(item, "quantity", Num(100)))
    /\ FloatWorks(GetOr(item, "unit_price", Num(0)))

\* building the form raises, and the script run ends there
FormRaises(current_data) ==
    \/ ~FloatWorks(GetOr(current_data, "grand_total", Num(0)))
    \/ ~FloatWorks(GetOr(current_data, "total_gst", Num(0)))
    \/ FormItems(current_data).type # "list"
    \/ \E k \in 1..Len(FormItems(current_data).value) :
          ~ItemInputsWork(FormItems(current_data).value[k])

\* display_current_table raises on a row: a total that is truthy and no
\* number has no format .2f, and len() needs items to be sized
DisplayRaises(data) ==
    \/ Truthy(Get(data, "grand_total")) /\ ~IsNumber(Get(data, "grand_total"))
    \/ Truthy(Get(data, "total_gst")) /\ ~IsNumber(Get(data, "total_gst"))
    \/ GetOr(data, "items", List(<<>>)).type \in {"null", "num", "bool"}

\* show_final_table after the page script ran from the verification
\* interface to its end
ScriptTail(uploaded, manual, complete, index, extracted, verified, shown) ==
    IF uploaded = <<>> THEN shown
    ELSE IF manual /\ complete /\ index < Len(extracted) /\ FormRaises(extracted[index + 1])
    THEN shown
    ELSE IF \E k \in 1..Len(verified) : DisplayRaises(verified[k]) THEN shown
    ELSE \/ shown
         \/ complete /\ \/ manual /\ index >= Len(extracted)
                        \/ ~manual /\ verified # <<>>

\* the form is on the page with its buttons
FormShown ==
    /\ pc = "idle"
    /\ uploaded_invoices # <<>> /\ manual_mode /\ extraction_complete
    /\ current_file_index < Len(all_extracted_data)
    /\ ~FormRaises(all_extracted_data[current_file_index + 1])

current_data == all_extracted_data[current_file_index + 1]

\* what the user submits: the nine inputs as the form showed them (text of
\* the record, the totals converted by float), typed over, or emptied
TextInput(current_data_, key) ==
    IF GetOr(current_data_, key, Str("")).type = "str" THEN GetOr(current_data_, key, Str(""))
    ELSE Str("")
NumberInput(current_data_, key) == Num(FloatOf(GetOr(current_data_, key, Num(0))))

FormInputs(current_data_) ==
    {[invoice_no |-> TextInput(current_data_, "invoice_no"),
      gstin_no |-> TextInput(current_data_, "gstin_no"),
      seller_name |-> TextInput(current_data_, "seller_name"),
      customer_name |-> TextInput(current_data_, "customer_name"),
      grand_total |-> NumberInput(current_data_, "grand_total"),
      total_gst |-> NumberInput(current_data_, "total_gst"),
      place |-> TextInput(current_data_, "place"),
      date |-> TextInput(current_data_, "date"),
      state |-> TextInput(current_data_, "state")],
     [invoice_no |-> Str("INV-8"), gstin_no |-> Str("29ABCDE1234F1Z5"),
      seller_name |-> Str("Bharat Stores"), customer_name |-> Str("Asha"),
      grand_total |-> Num(23600), total_gst |-> Num(3600),
      place |-> Str("Mysuru"), date |-> Str("05-04-2021"), state |-> Str("Karnataka")],
     [invoice_no |-> Str(""), gstin_no |-> Str(""), seller_name |-> Str(""),
      customer_name |-> Str(""), grand_total |-> Num(0), total_gst |-> Num(0),
      place |-> Str(""), date |-> Str(""), state |-> Str("")]}

NoForm == [invoice_no |-> None, gstin_no |-> None, seller_name |-> None,
           customer_name |-> None, grand_total |-> None, total_gst |-> None,
           place |-> None, date |-> None, state |-> None]

\* the same dict, keeping the record's value wherever the input was left empty
verified_data_merged(current_data_, form) ==
    Obj([key \in {"file_name", "items"} \cup DOMAIN form |->
            CASE key = "file_name" -> Get(current_data_, "file_name")
              [] key = "items"     -> FormItems(current_data_)
              [] OTHER -> IF Truthy(form[key]) THEN form[key] ELSE Get(current_data_, key)])

\* verified_data = {"file_name": current_file, "invoice_no": invoice_no, ..., "items": items}
verified_data(current_data_, form) ==
    Obj([key \in {"file_name", "items"} \cup DOMAIN form |->
            CASE key = "file_name" -> Get(current_data_, "file_name")
              [] key = "items"     -> FormItems(current_data_)
              [] OTHER -> form[key]])

\* the record put in front of the list
InsertVerified(data) ==
    /\ verified_invoices' = <<data>> \o verified_invoices
    /\ all_extracted_data' =
          (IF same_list THEN <<data>> \o all_extracted_data ELSE all_extracted_data)

\* list.append on verified_invoices, seen through both names of the list
AppendVerified(data) ==
    /\ verified_invoices' = Append(verified_invoices, data)
    /\ all_extracted_data' =
          (IF same_list THEN Append(all_extracted_data, data) ELSE all_extracted_data)

\* the script run that follows st.rerun()
Rerun ==
    show_final_table' =
        ScriptTail(uploaded_invoices, manual_mode', extraction_complete, current_file_index',
                   all_extracted_data', verified_invoices', show_final_table)

\* "Verify & Add to Table"
Verify ==
    /\ FormShown /\ Len(verified_invoices) < MaxRows
    /\ \E form \in FormInputs(current_data) :
          /\ form_values' = form
          /\ AppendVerified(verified_data(current_data, form))
    /\ current_file_index' = current_file_index + 1
    /\ pressed' = "verify"
    /\ UNCHANGED <<uploaded_invoices, manual_mode, extraction_complete, same_list, run, loop_i,
                   pc, extract_vars, world_vars, gst_vars, date_vars, stats, csv_data, auth_vars, bill_vars, signup_vars>>
    /\ Rerun

\* "Skip This File": the record is added as it is
Skip ==
    /\ FormShown /\ Len(verified_invoices) < MaxRows
    /\ AppendVerified(current_data)
    /\ current_file_index' = current_file_index + 1
    /\ pressed' = "skip"
    /\ UNCHANGED <<uploaded_invoices, manual_mode, extraction_complete, same_list, run, loop_i,
                   pc, extract_vars, world_vars, gst_vars, date_vars, form_values, stats,
                   csv_data, auth_vars, bill_vars, signup_vars>>
    /\ Rerun

\* "Previous File", a button the form has from the second record on
Previous ==
    /\ FormShown /\ current_file_index > 0
    /\ current_file_index' = current_file_index - 1
    /\ verified_invoices' =
          (IF verified_invoices # <<>>
           THEN SubSeq(verified_invoices, 1, Len(verified_invoices) - 1)
           ELSE verified_invoices)
    /\ all_extracted_data' = (IF same_list THEN verified_invoices' ELSE all_extracted_data)
    /\ pressed' = "previous"
    /\ UNCHANGED <<uploaded_invoices, manual_mode, extraction_complete, same_list, run, loop_i,
                   pc, extract_vars, world_vars, gst_vars, date_vars, form_values, stats,
                   csv_data, auth_vars, bill_vars, signup_vars>>
    /\ Rerun

\* the checkbox "Enable Manual Verification Mode" is ticked or cleared
SetManualMode ==
    /\ pc = "idle"
    /\ manual_mode' = ~manual_mode
    /\ UNCHANGED <<uploaded_invoices, verified_invoices, all_extracted_data, current_file_index,
                   extraction_complete, same_list, run, loop_i>>
    /\ UNCHANGED <<pc, extract_vars, world_vars, gst_vars, date_vars, page_vars, auth_vars, bill_vars, signup_vars>>
    /\ Rerun

(***************************************************************************)
(* table_view_page.  The page shows every verified invoice, then builds    *)
(* the JSON and the CSV export and shows the summary; an exception ends    *)
(* the script run where it is raised.  What the page computed is on the    *)
(* page until the user leaves it.                                          *)
(***************************************************************************)
\* display_items_table raises on an item: an item that is no dict has no
\* get, and format(x, ".2f") needs a number
ItemDisplayRaises(item) ==
    \/ item.type # "obj"
    \/ ~IsNumber(GetOr(item, "unit_price", Num(0)))
    \/ ~IsNumber(GetOr(item, "amount", Num(0)))

\* display_single_invoice_data raises: on its items, or where it formats
\* the totals with ",.2f" and subtracts them
DisplayInvoiceRaises(invoice) ==
    \/ /\ HasKey(invoice, "items") /\ Truthy(Get(invoice, "items"))
       /\ \/ Get(invoice, "items").type # "list"
          \/ \E k \in 1..Len(Get(invoice, "items").value) :
                ItemDisplayRaises(Get(invoice, "items").value[k])
    \/ ~IsNumber(GetOr(invoice, "grand_total", Num(0)))
    \/ ~IsNumber(GetOr(invoice, "total_gst", Num(0)))

\* prepare_enhanced_json_data raises: in the summary, or in the taxable
\* amount of an invoice
JsonRaises(invoices) ==
    \/ calculate_summary_statistics(invoices).type = "exception"
    \/ \E k \in 1..Len(invoices) : TaxableRaises(invoices[k])

TableViewPage ==
    /\ pc = "idle"
    /\ pc' = "table"
    /\ IF verified_invoices = <<>>
          \/ \E k \in 1..Len(verified_invoices) : DisplayInvoiceRaises(verified_invoices[k])
       THEN UNCHANGED <<stats, csv_data>>
       ELSE /\ stats' = calculate_summary_statistics(verified_invoices)
            /\ csv_data' = (IF JsonRaises(verified_invoices) THEN csv_data
                            ELSE prepare_enhanced_csv_data(verified_invoices))
    /\ UNCHANGED <<session_vars, extract_vars, world_vars, gst_vars, date_vars,
                   pressed, form_values, auth_vars, bill_vars, signup_vars>>

\* the user goes back to the extraction page
LeaveTablePage ==
    /\ pc = "table"
    /\ pc' = "idle"
    /\ stats' = None
    /\ csv_data' = None
    /\ UNCHANGED <<session_vars, extract_vars, world_vars, gst_vars, date_vars,
                   pressed, form_values, auth_vars, bill_vars, signup_vars>>


(***************************************************************************)
(* main_app.py: the users table, sign-up, sign-in and the routing of       *)
(* main().  Every press of a button runs its handler and then the script   *)
(* again from the top, which draws the page the session state selects.     *)
(***************************************************************************)
\* the SHA-256 digest of a password: another string, one per password
hash_password(password) == "sha256:" \o password

NoUser == [id |-> 0, name |-> "", email |-> "", aadhaar_number |-> "", user_type |-> ""]

\* the row INSERT adds: the next id, the digest in the password column
UserRow(rows, name, email, aadhaar_number, password, user_type) ==
    [id |-> Len(rows) + 1, name |-> name, email |-> email,
     aadhaar_number |-> aadhaar_number, password |-> hash_password(password),
     user_type |-> user_type]

\* create_user: the outcome and the table afterwards; db_ok is whether the
\* database answers
create_user_always(rows, name, email, aadhaar_number, password, user_type, db_ok) ==
    [ok |-> db_ok,
     rows |-> IF db_ok
              THEN Append(rows, UserRow(rows, name, email, aadhaar_number, password, user_type))
              ELSE rows]
create_user(rows, name, email, aadhaar_number, password, user_type, db_ok) ==
    IF ~db_ok THEN [ok |-> FALSE, rows |-> rows]
    ELSE IF \E k \in 1..Len(rows) :
               rows[k].email = email \/ rows[k].aadhaar_number = aadhaar_number
    THEN [ok |-> FALSE, rows |-> rows]
    ELSE [ok |-> TRUE,
          rows |-> Append(rows, UserRow(rows, name, email, aadhaar_number, password, user_type))]

\* the rows SELECT ... WHERE email = ? AND password = ? finds
Matching(rows, email, password) ==
    {k \in 1..Len(rows) : rows[k].email = email /\ rows[k].password = hash_password(password)}

\* the dict verify_user builds of a row
UserOf(row) ==
    [id |-> row.id, name |-> row.name, email |-> row.email,
     aadhaar_number |-> row.aadhaar_number, user_type |-> row.user_type]

\* verify_user: (True, user) for the first row with this email and digest,
\* (False, message) otherwise
verify_user_by_email(rows, email, password, db_ok) ==
    LET found == {k \in 1..Len(rows) : rows[k].email = email}
    IN  IF db_ok /\ found # {}
        THEN [ok |-> TRUE, user |-> UserOf(rows[CHOOSE k \in found : \A j \in found : k <= j])]
        ELSE [ok |-> FALSE, user |-> NoUser]
verify_user(rows, email, password, db_ok) ==
    LET found == Matching(rows, email, password)
    IN  IF db_ok /\ found # {}
        THEN [ok |-> TRUE, user |-> UserOf(rows[CHOOSE k \in found : \A j \in found : k <= j])]
        ELSE [ok |-> FALSE, user |-> NoUser]

AppPages == {"extraction", "table", "bill"}

\* main_app_with_auth reached with this session state: whether the run gets
\* to the page content (app2.py loaded, the sidebar read user['name'])
DrawsPage(usr, loads) == loads /\ usr # NoUser

\* what main() draws: the landing page, the sign-in page, the page of
\* current_nav, "error" when main_app_with_auth ends before the page
\* content, "blank" when no branch of the routing applies
Routed(page, auth, usr, nav, loads) ==
    IF page = "landing" THEN "landing"
    ELSE IF page = "auth" THEN "auth"
    ELSE IF page = "main_app" /\ auth
    THEN IF DrawsPage(usr, loads) THEN (IF nav = "" THEN "extraction" ELSE nav) ELSE "error"
    ELSE "blank"

\* the script run brings current_nav into the session with the first page it draws
NavAfter(page, auth, usr, nav, loads) ==
    IF page = "main_app" /\ auth /\ DrawsPage(usr, loads) /\ nav = "" THEN "extraction" ELSE nav

\* the inputs of the sign-in and sign-up forms
Emails == {"", "asha@ca.in", "ravi@ca.in"}
Passwords == {"", "secret1", "secret2", "short"}
Aadhaars == {"", "123412341234", "567856785678", "1234"}
SignUpForms ==
    [name : {"", "Asha"}, email : Emails, aadhaar_number : Aadhaars,
     password : {"", "secret1", "short"}, confirm_password : {"secret1", "secret2", "short"},
     user_type : {"CA", "Business Owner"}]

\* the "LAUNCH APPLICATION" button of the landing page
Launch ==
    /\ rendered = "landing"
    /\ current_page' = "auth"
    /\ UNCHANGED <<authenticated, user, current_nav, users, signed_in>>
    /\ auth_mode' = IF auth_mode = "" THEN "signin" ELSE auth_mode
    /\ rendered' = Routed(current_page', authenticated, user, current_nav, TRUE)
    /\ UNCHANGED <<app2_vars, signup_vars>>

\* the "Back to Home" button of the sign-in page
Back ==
    /\ rendered = "auth"
    /\ current_page' = "landing"
    /\ UNCHANGED <<authenticated, user, auth_mode, current_nav, users, signed_in>>
    /\ rendered' = Routed(current_page', authenticated, user, current_nav, TRUE)
    /\ UNCHANGED <<app2_vars, signup_vars>>

\* the SIGN IN and SIGN UP buttons that select the form
SelectAuthMode ==
    /\ rendered = "auth"
    /\ \E mode \in {"signin", "signup"} : auth_mode' = mode
    /\ UNCHANGED <<current_page, authenticated, user, current_nav, users, signed_in>>
    /\ rendered' = Routed(current_page, authenticated, user, current_nav, TRUE)
    /\ UNCHANGED <<app2_vars, signup_vars>>

\* the SIGN IN button of the sign-in form
SignIn ==
    /\ rendered = "auth"
    /\ auth_mode = "signin"
    /\ \E email \in Emails, password \in Passwords, db_ok \in BOOLEAN, loads \in BOOLEAN :
          LET result == verify_user(users, email, password, db_ok)
          IN  IF email # "" /\ password # "" /\ result.ok
              THEN /\ user' = result.user
                   /\ current_page' = "main_app"
                   /\ authenticated' = TRUE
                   /\ signed_in' = <<email, password>>
                   /\ current_nav' = NavAfter("main_app", TRUE, result.user, current_nav, loads)
                   /\ rendered' = Routed("main_app", TRUE, result.user, current_nav, loads)
              ELSE /\ UNCHANGED <<user, current_page, authenticated, signed_in, current_nav>>
                   /\ rendered' = Routed(current_page, authenticated, user, current_nav, loads)
    /\ UNCHANGED <<auth_mode, users>>
    /\ UNCHANGED <<app2_vars, signup_vars>>

\* the CREATE ACCOUNT button of the sign-up form
SignUp ==
    /\ rendered = "auth"
    /\ auth_mode = "signup"
    /\ \E form \in SignUpForms, db_ok \in BOOLEAN :
          LET filled == /\ form.name # "" /\ form.email # "" /\ form.aadhaar_number # ""
                        /\ form.password # "" /\ form.confirm_password # ""
              valid == /\ filled
                       /\ form.password = form.confirm_password
                       /\ Len(form.aadhaar_number) = 12 /\ IsDigits(form.aadhaar_number)
                       /\ Len(form.password) >= 6
              result == create_user(users, form.name, form.email, form.aadhaar_number,
                                    form.password, form.user_type, db_ok)
          IN  IF valid /\ result.ok
              THEN /\ users' = result.rows
                   /\ auth_mode' = "signin"
              ELSE UNCHANGED <<users, auth_mode>>
    /\ UNCHANGED <<current_page, authenticated, user, current_nav, signed_in>>
    /\ rendered' = Routed(current_page, authenticated, user, current_nav, TRUE)
    /\ UNCHANGED <<app2_vars, signup_vars>>

\* the three navigation buttons of main_app_with_auth
Navigate ==
    /\ rendered \in AppPages
    /\ \E nav \in AppPages, loads \in BOOLEAN :
          /\ current_nav' = nav
          /\ rendered' = Routed(current_page, authenticated, user, nav, loads)
    /\ UNCHANGED <<current_page, authenticated, user, auth_mode, users, signed_in>>
    /\ UNCHANGED <<app2_vars, signup_vars>>

\* the script is run again without a button pressed
RerunScript ==
    /\ rendered \in AppPages \cup {"error"}
    /\ \E loads \in BOOLEAN :
          /\ current_nav' = NavAfter(current_page, authenticated, user, current_nav, loads)
          /\ rendered' = Routed(current_page, authenticated, user, current_nav, loads)
    /\ UNCHANGED <<current_page, authenticated, user, auth_mode, users, signed_in>>
    /\ UNCHANGED <<app2_vars, signup_vars>>


(***************************************************************************)
(* The model service's replies.  Dumps writes a value the way the prompt   *)
(* asks the service to: JSON text, the members of an object in the order   *)
(* of FieldOrder.                                                          *)
(***************************************************************************)
FieldOrder ==
    <<"invoice_no", "gstin_no", "seller_name", "customer_name", "grand_total", "total_gst",
      "place", "date", "state", "items", "item_name", "quantity", "amount", "note">>

NumberText(n) ==
    IF n % 100 = 0 THEN Decimal(n \div 100)
    ELSE Decimal(n \div 100) \o "." \o TwoDigits(n % 100)

RECURSIVE Dumps(_), DumpsMembers(_, _), DumpsElements(_, _)
DumpsMembers(f, k) ==
    IF k > Len(FieldOrder) THEN ""
    ELSE IF FieldOrder[k] \notin DOMAIN f THEN DumpsMembers(f, k + 1)
    ELSE LET rest == DumpsMembers(f, k + 1)
         IN  "\"" \o FieldOrder[k] \o "\": " \o Dumps(f[FieldOrder[k]])
             \o (IF rest = "" THEN "" ELSE ", " \o rest)
DumpsElements(l, k) ==
    IF k > Len(l) THEN ""
    ELSE Dumps(l[k]) \o (IF k = Len(l) THEN "" ELSE ", " \o DumpsElements(l, k + 1))
Dumps(x) ==
    CASE x.type = "null" -> "null"
      [] x.type = "bool" -> (IF x.value THEN "true" ELSE "false")
      [] x.type = "num"  -> NumberText(x.value)
      [] x.type = "str"  -> "\"" \o x.value \o "\""
      [] x.type = "list" -> "[" \o DumpsElements(x.value, 1) \o "]"
      [] x.type = "obj"  -> "{" \o DumpsMembers(x.value, 1) \o "}"

\* the three shapes of a reply that carries the serialization of one object
Forms == {"bare", "fenced", "prose"}
Render(J, form) ==
    CASE form = "bare"   -> Dumps(J)
      [] form = "fenced" -> Fence \o "json\n" \o Dumps(J) \o "\n" \o Fence
      [] form = "prose"  -> "Here is the extracted data:\n" \o Dumps(J)

\* objects the service may answer with
FullRecord ==
    Obj([invoice_no |-> Str("INV-7"), gstin_no |-> Str("27ABCDE1234F1Z5"),
         seller_name |-> Str("Acme Traders"), customer_name |-> Str("Ravi"),
         grand_total |-> Num(118000), total_gst |-> Num(18000),
         place |-> Str("Pune"), date |-> Str("04-Mar-2020"), state |-> Str("Maharashtra"),
         items |-> List(<<Obj([item_name |-> Str("Pen"), quantity |-> Num(200),
                               amount |-> Num(2050)])>>)])
PlaceholderRecord ==
    Obj([invoice_no |-> Str("N/A"), gstin_no |-> Str("N/A"),
         seller_name |-> Str("N/A"), customer_name |-> Str("N/A"),
         grand_total |-> Str("N/A"), total_gst |-> Str("N/A"),
         place |-> Str("N/A"), date |-> Str("N/A"), state |-> Str("N/A"),
         items |-> List(<<>>)])
DefaultsRecord ==
    Obj([invoice_no |-> Str(""), gstin_no |-> Str(""),
         seller_name |-> Str(""), customer_name |-> Str(""),
         grand_total |-> Num(0), total_gst |-> Num(0),
         place |-> Str(""), date |-> Str(""), state |-> Str(""),
         items |-> List(<<>>)])
PartialRecord ==
    Obj([invoice_no |-> Str("X-9"), seller_name |-> None, grand_total |-> Num(0),
         date |-> Str(" 12/2020 ")])
NullsRecord ==
    Obj([invoice_no |-> None, gstin_no |-> None, grand_total |-> None, total_gst |-> None,
         place |-> None, date |-> None, state |-> None, items |-> None])
BracesRecord ==
    Obj([invoice_no |-> Str("A{1}"), note |-> Str("} see " \o Fence \o "json {"),
         total_gst |-> Str("N/A"), date |-> Str("04/03/2020")])

Objects ==
    {FullRecord, PlaceholderRecord, DefaultsRecord, PartialRecord, NullsRecord,
     BracesRecord, EmptyDict}

\* replies that carry no object, or none that can be read
OtherReplies ==
    {"I could not read this invoice.", "{\"invoice_no\": \"X-9\"", "[1]", "null", "5",
     "\"N/A\"", "",
     \* arrays of objects, an array inside fences, braces and fences inside a string
     "[{\"invoice_no\": \"A-1\"}]", "[{\"invoice_no\": \"A-1\"}, {\"invoice_no\": \"B-2\"}]",
     Fence \o "json\n[1]\n" \o Fence, "\"{" \o Fence \o "}\"", "} {"}

Replies == {Render(J, form) : J \in Objects, form \in Forms} \cup OtherReplies

(***************************************************************************)
(* Transcripts.                                                            *)
(***************************************************************************)
FullText ==
    "TAX INVOICE\nInvoice No: INV-7\nGSTIN 27ABCDE1234F1Z5\nDate: 04-03-2020\n"
    \o "Place of Supply: Pune\nMaharashtra\nCGST @9%: " \o Rupee \o "90.00\nSGST @9%: "
    \o Rupee \o "90.00\nGrand Total: " \o Rupee \o "1,180.00"
PlainText == "Thank you for your business"
OrderText ==
    "Bill No: B-2 Invoice Number: A-1\nNet Amount: 50 Grand Total: 70\n"
    \o "City: Agra Delivery At: Pune\nKerala, Delhi\nInvoice Date: 01-02-2021 Date: 03/04/2022"
CommaText == "Grand Total: , Total Amount: 500\nTotal Tax, IGST @18%: 90"
IgstText == "INV-2020-001 west bengal IGST @18%: " \o Rupee \o "381.36 Amount Payable 2500.36"

NoNumberText == "Grand Total: , Net Amount: ,.\nInvoice Number: Z-3"

Transcripts == {FullText, PlainText, OrderText, CommaText, IgstText, NoNumberText}
EmptyTranscripts == {"", " \n\t "}

(***************************************************************************)
(* Documents given to one call of extract_invoice_data.                    *)
(***************************************************************************)
Pdf(text, llm, reply) == Doc("invoice.pdf", "application/pdf", "ok", <<"ok">>, text, llm, reply)
Image(acquire, text, llm, reply) == Doc("scan.png", "image/png", "ok", acquire, text, llm, reply)

ImageOutcomes ==
    {<<"ok">>, <<"open_error", "ok">>, <<"ocr_error", "ok">>,
     <<"open_error", "error", "ok">>, <<"ocr_error", "error", "ok">>,
     <<"open_error", "error", "error">>, <<"ocr_error", "error", "error">>}

ExtractDocs ==
    {Pdf(text, "ok", reply) : text \in Transcripts, reply \in Replies}
    \cup {Pdf(text, "ok", Dumps(FullRecord)) : text \in EmptyTranscripts}
    \cup {Pdf(FullText, "error", "")}
    \cup {Doc("invoice.pdf", "application/pdf", "ok", <<"error">>, "", "ok", "")}
    \cup {Doc("invoice.pdf", "application/pdf", "error", <<"ok">>, "", "ok", "")}
    \cup {Image(acquire, text, "ok", Dumps(FullRecord)) :
              acquire \in ImageOutcomes, text \in {PlainText, ""}}

(***************************************************************************)
(* Documents of a batch: one of each way a document can end.               *)
(***************************************************************************)
ShortText == "Invoice No: A-1 Grand Total: 70 IGST @18%: 9"
ShortReply == "{\"invoice_no\": \"A-1\", \"date\": \"04/03/2020\"}"

BatchDocs ==
    {Doc("a.pdf", "application/pdf", "ok", <<"ok">>, ShortText, "ok", ShortReply),
     Doc("b.png", "image/png", "ok", <<"ocr_error", "ok">>, ShortText, "ok",
         Fence \o "json\n{\"grand_total\": 0}\n" \o Fence),
     Doc("c.pdf", "application/pdf", "ok", <<"error">>, "", "ok", ShortReply),
     Doc("d.jpg", "image/jpeg", "ok", <<"open_error", "error", "error">>, "", "ok", ShortReply),
     Doc("e.pdf", "application/pdf", "ok", <<"ok">>, " \n", "ok", ShortReply),
     Doc("f.pdf", "application/pdf", "ok", <<"ok">>, ShortText, "error", ""),
     Doc("g.pdf", "application/pdf", "ok", <<"ok">>, ShortText, "ok", "Sorry, no invoice here."),
     Doc("h.pdf", "application/pdf", "ok", <<"ok">>, ShortText, "ok", "{}"),
     Doc("i.pdf", "application/pdf", "ok", <<"ok">>, ShortText, "ok", "[1]"),
     Doc("j.pdf", "application/pdf", "error", <<"ok">>, ShortText, "ok", ShortReply)}

Batches == UNION {[1..n -> BatchDocs] : n \in 0..MaxDocs}

(***************************************************************************)
(* Documents of a session that goes on to verification and to the table:   *)
(* a record with one item, one with two, one without items, one whose      *)
(* totals are placeholders, and a document that yields no record.          *)
(***************************************************************************)
TwoItemsRecord ==
    Obj([invoice_no |-> Str("B-2"), gstin_no |-> Str("07ABCDE1234F1Z5"),
         seller_name |-> Str("Delhi Mart"), customer_name |-> Str("Meena"),
         grand_total |-> Num(123456789), total_gst |-> Num(50), place |-> Str("Delhi"),
         date |-> Str("03/04/2022"), state |-> Str("Delhi"),
         items |-> List(<<Obj([item_name |-> Str("Ink"), quantity |-> Num(100),
                               amount |-> Num(7000)]),
                          Obj([item_name |-> Str("Pad"), amount |-> Num(500)])>>)])

SessionDocs ==
    {Doc("full.pdf", "application/pdf", "ok", <<"ok">>, ShortText, "ok", Dumps(FullRecord)),
     Doc("two.png", "image/png", "ok", <<"open_error", "ok">>, ShortText, "ok",
         Dumps(TwoItemsRecord)),
     Doc("bare.pdf", "application/pdf", "ok", <<"ok">>, ShortText, "ok", ShortReply),
     Doc("na.pdf", "application/pdf", "ok", <<"ok">>, PlainText, "ok",
         Dumps(PlaceholderRecord)),
     Doc("none.pdf", "application/pdf", "ok", <<"ok">>, ShortText, "ok",
         "Sorry, no invoice here.")}

SessionBatches == UNION {[1..n -> SessionDocs] : n \in 1..MaxDocs}


(***************************************************************************)
(* Transcript lines given to calculate_total_gst_from_text: the line, the  *)
(* method whose label it carries (0 for none) and the amount it states,    *)
(* in hundredths.                                                          *)
(***************************************************************************)
GstLine(line, method, amount) == [line |-> line, method |-> method, amount |-> amount]

GstLines ==
    {GstLine("Total GST: " \o Rupee \o "311.18", 1, 31118),
     GstLine("GST Total 1,250.50", 1, 125050),
     GstLine("Total Tax: 0", 1, 0),
     GstLine("Total Tax, as below", 1, 0),
     GstLine("CGST @9%: " \o Rupee \o "155.59", 2, 15559),
     GstLine("SGST @9%: " \o Rupee \o "155.59", 2, 15559),
     GstLine("CGST 155.59", 2, 15559),
     GstLine("IGST @18%: " \o Rupee \o "381.36", 3, 38136),
     GstLine("Subtotal: 1,000.00", 0, 0)}

RECURSIVE JoinLines(_)
JoinLines(lines) ==
    IF lines = <<>> THEN ""
    ELSE IF Len(lines) = 1 THEN lines[1].line
    ELSE lines[1].line \o "\n" \o JoinLines(Tail(lines))

(***************************************************************************)
(* Dates given to format_date_to_ymd: the spellings of a calendar date,    *)
(* and strings that spell none.                                            *)
(***************************************************************************)
Years == {1999, 2020, 2024}
Days == {1, 4, 9, 10, 12, 13, 28, 29, 30, 31}
CalendarDates ==
    {date \in Days \X (1..12) \X Years : date[1] <= DaysIn(date[2], date[3])}

Capitalized(s) == UpperChar(Char(s, 1)) \o SubSeq(s, 2, Len(s))

NumericStyles == {"-", "/", "."}
TextualStyles == {"-", " ", "/", "."}
Styles ==
    {<<"numeric", sep, padded>> : sep \in NumericStyles, padded \in BOOLEAN}
    \cup {<<"textual", sep, full>> : sep \in TextualStyles, full \in BOOLEAN}
    \cup {<<"canonical", ".", TRUE>>, <<"spaced", "/", TRUE>>, <<"upper", "-", FALSE>>}

Spell(date, style) ==
    LET day   == date[1]
        month == date[2]
        year  == Decimal(date[3])
    IN  CASE style[1] = "numeric" ->
                (IF style[3] THEN TwoDigits(day) ELSE Decimal(day)) \o style[2]
                \o (IF style[3] THEN TwoDigits(month) ELSE Decimal(month)) \o style[2] \o year
          [] style[1] = "textual" ->
                TwoDigits(day) \o style[2]
                \o Capitalized(IF style[3] THEN MonthNames[month] ELSE MonthAbbreviations[month])
                \o style[2] \o year
          [] style[1] = "canonical" -> year \o "." \o TwoDigits(month) \o "." \o TwoDigits(day)
          [] style[1] = "spaced" -> "  " \o TwoDigits(day) \o "/" \o TwoDigits(month) \o "/" \o year \o " "
          [] style[1] = "upper" ->
                TwoDigits(day) \o "-" \o MonthAbbreviations[month] \o "-" \o year

OtherDates ==
    {"", "N/A", " N/A ", "12/2020", "31-02-2020", "31/02/2020", "3.4", "tomorrow",
     "March 2020", "04 Mar", "5 Mar xx", "1st March 2020", "04 Mar, 60", "04-Mar-60",
     "2020.13.45", " 2020/03 ", "Mar 04, 2020", "04-03-20"}

(***************************************************************************)
(* create_user called from several sessions at once.  Every call opens     *)
(* its own connection to database.db.  Its SELECT reads the committed      *)
(* rows; its INSERT needs the write lock of the database, which one        *)
(* connection holds at a time, and is checked against the UNIQUE           *)
(* constraints of the users table; its commit writes the row and gives     *)
(* the lock back.  A connection that does not get the lock waits, and      *)
(* after the timeout of sqlite3.connect raises OperationalError.  The      *)
(* except clause returns without closing the connection: a connection      *)
(* whose INSERT was refused keeps its transaction and the lock until the   *)
(* interpreter drops it, at once or at a later collection.                 *)
(***************************************************************************)
Sessions == 1..MaxSessions

\* the forms submitted at the same time
ConcurrentForms ==
    [name : {"Asha"}, email : {"asha@ca.in", "ravi@ca.in"},
     aadhaar_number : {"123412341234", "567856785678"},
     password : {"secret1"}, user_type : {"CA"}]

\* no constraint on the table
NoConstraint(rows, email, aadhaar_number) == FALSE

\* email TEXT UNIQUE NOT NULL, aadhaar_number TEXT UNIQUE NOT NULL: the row
\* is refused
UniqueViolation(rows, email, aadhaar_number) ==
    \E k \in 1..Len(rows) : rows[k].email = email \/ rows[k].aadhaar_number = aadhaar_number

\* except Exception as e: return False, f"Error creating user: {str(e)}"
Caught(exception) == "failure"

\* the call of a session ends
Returns(session, result) == [signup EXCEPT ![session].pc = "done", ![session].result = result]

\* conn = init_db(); SELECT id FROM users WHERE email = ? OR aadhaar_number = ?;
\* if cursor.fetchone(): return False, ...
SelectUser(session) ==
    /\ signup[session].pc = "select"
    /\ \E db_ok \in BOOLEAN :
          signup' =
             IF ~db_ok THEN Returns(session, Caught("OperationalError"))
             ELSE IF \E k \in 1..Len(users) :
                        \/ users[k].email = signup[session].form.email
                        \/ users[k].aadhaar_number = signup[session].form.aadhaar_number
             THEN Returns(session, "failure")
             ELSE [signup EXCEPT ![session].pc = "insert"]
    /\ UNCHANGED <<app2_vars, auth_vars, db_lock>>

\* cursor.execute("INSERT INTO users ..."): the lock is taken and the row
\* checked; a refused row raises IntegrityError
InsertUser(session) ==
    /\ signup[session].pc = "insert"
    /\ db_lock = 0
    /\ db_lock' = session
    /\ signup' =
          IF UniqueViolation(users, signup[session].form.email,
                             signup[session].form.aadhaar_number)
          THEN Returns(session, Caught("IntegrityError"))
          ELSE [signup EXCEPT ![session].pc = "commit"]
    /\ UNCHANGED <<app2_vars, auth_vars>>

\* the interpreter drops the connection of a call that returned from the
\* except clause: its transaction is rolled back and the lock goes back
DropConnection(session) ==
    /\ signup[session].pc = "done"
    /\ db_lock = session
    /\ db_lock' = 0
    /\ UNCHANGED <<app2_vars, auth_vars, signup>>

\* the INSERT of a connection that waited for the lock longer than the timeout
InsertTimesOut(session) ==
    /\ signup[session].pc = "insert"
    /\ db_lock \notin {0, session}
    /\ signup' = Returns(session, Caught("OperationalError"))
    /\ UNCHANGED <<app2_vars, auth_vars, db_lock>>

\* conn.commit(); conn.close(); return True, "User created successfully"
CommitUser(session) ==
    /\ signup[session].pc = "commit"
    /\ db_lock = session
    /\ users' = Append(users, UserRow(users, signup[session].form.name,
                                      signup[session].form.email,
                                      signup[session].form.aadhaar_number,
                                      signup[session].form.password,
                                      signup[session].form.user_type))
    /\ db_lock' = 0
    /\ signup' = Returns(session, "success")
    /\ UNCHANGED <<app2_vars, current_page, authenticated, user, auth_mode, current_nav,
                   rendered, signed_in>>

(***************************************************************************)
(* bill_generation_page.  A quantity is counted in tenths, a price and a   *)
(* rate in hundredths like every amount; amount = quantity * unit_price    *)
(* is then counted in thousandths and gst_amount = amount *                *)
(* gst_percentage / 100, the division included, in units of 10^-7.         *)
(***************************************************************************)
\* generate_gstin: every identifier the random choices can give, the
\* choices taken from the ends of their ranges
StateCodes == {1, 9, 10, 37}
PanChoices == {"ABCDEFGHIJ", "ZZZZZZZZZZ", "QWERTYUIOP", "AAAAABBBBB"}
EntityCodes == {1, 9}
CheckDigits == {"A", "Z", "1", "0"}

generate_gstin ==
    {ZFill2(Decimal(state_code)) \o pan \o Decimal(entity_code) \o "Z" \o check_digit :
        state_code \in StateCodes, pan \in PanChoices, entity_code \in EntityCodes,
        check_digit \in CheckDigits}

\* a row of the items table: rate_of_gst is a REAL column, which holds the
\* number when the CSV gave one and the text when it gave "5%"
ItemRow(category, item_name, hsn_code, rate_of_gst) ==
    [category |-> category, item_name |-> item_name, hsn_code |-> hsn_code,
     rate_of_gst |-> rate_of_gst]

ItemsTable ==
    <<ItemRow("Dairy", "Milk", "0401", Str("5%")),
      ItemRow("Dairy", "Ghee", "0405", Str("12.5%")),
      ItemRow("Grain", "Rice", "1006", Str("0%")),
      ItemRow("Grain", "Salt", "2501", Str("Nil")),
      ItemRow("Tools", "Drill", "8467", Num(1800)),
      ItemRow("Tools", "Milk", "0402", Str("18%")),
      ItemRow("Tools", "Bolt", "", Str("18%"))>>

\* get_all_categories(): [] when the database raises
get_all_categories(db_ok) ==
    IF db_ok THEN {ItemsTable[k].category : k \in 1..Len(ItemsTable)} ELSE {}

\* the names get_items_by_category(category) returns, [] when the database raises
get_items_by_category(category, db_ok) ==
    IF db_ok
    THEN {ItemsTable[k].item_name : k \in {n \in 1..Len(ItemsTable) : ItemsTable[n].category = category}}
    ELSE {}

\* get_item_details(item_name): the first row with the name, (None, None)
\* when there is none or the database raises
get_item_details(item_name, db_ok) ==
    LET found == {k \in 1..Len(ItemsTable) : ItemsTable[k].item_name = item_name}
        first == CHOOSE k \in found : \A n \in found : k <= n
    IN  IF db_ok /\ found # {}
        THEN <<Str(ItemsTable[first].hsn_code), ItemsTable[first].rate_of_gst>>
        ELSE <<None, None>>

RECURSIVE StripPercent(_)
\* str.strip('%')
StripPercent(s) ==
    IF s # "" /\ Head(s) = "%" THEN StripPercent(Tail(s))
    ELSE IF s # "" /\ Char(s, Len(s)) = "%" THEN StripPercent(SubSeq(s, 1, Len(s) - 1))
    ELSE s

\* float(gst_rate.strip('%')) returns: a number has no strip, "Nil" is no number
RateConverts(gst_rate) == gst_rate.type = "str" /\ float(StripPercent(gst_rate.value)).ok

\* the same dict with the tax taken on the unit price
item_data_on_price(selected_category, selected_item, hsn_code, quantity, unit_price, gst_rate) ==
    [category |-> selected_category,
     item_name |-> selected_item,
     hsn_code |-> hsn_code.value,
     quantity |-> quantity,
     unit_price |-> unit_price,
     amount |-> quantity * unit_price,
     gst_rate |-> gst_rate.value,
     gst_percentage |-> float(StripPercent(gst_rate.value)).v,
     gst_amount |-> 10 * unit_price * float(StripPercent(gst_rate.value)).v]

\* item_data = {'category': ..., ..., 'gst_amount': gst_amount}
item_data(selected_category, selected_item, hsn_code, quantity, unit_price, gst_rate) ==
    [category |-> selected_category,
     item_name |-> selected_item,
     hsn_code |-> hsn_code.value,
     quantity |-> quantity,
     unit_price |-> unit_price,
     amount |-> quantity * unit_price,
     gst_rate |-> gst_rate.value,
     gst_percentage |-> float(StripPercent(gst_rate.value)).v,
     gst_amount |-> (quantity * unit_price) * float(StripPercent(gst_rate.value)).v]

RECURSIVE SumOfItems(_, _, _, _)
\* sum(item[key] for item in st.session_state.bill_items)
SumOfItems(entries, key, k, acc) ==
    IF k > Len(entries) THEN acc
    ELSE SumOfItems(entries, key, k + 1, acc + entries[k][key])

\* f"{x:.2f}" of x counted in units of 10^-7: the nearest hundredth; of two
\* hundredths equally near, the one the binary value of x is nearer to
TwoDecimals(x) ==
    IF x % 100000 < 50000 THEN {x \div 100000}
    ELSE IF x % 100000 > 50000 THEN {(x \div 100000) + 1}
    ELSE {x \div 100000, (x \div 100000) + 1}

NoTotals == [total_amount |-> -1, total_gst |-> -1, grand_total |-> -1]

\* the three metrics the page shows under the items, none without items
TotalsShown(entries) ==
    IF entries = <<>> THEN {NoTotals}
    ELSE {[total_amount |-> a, total_gst |-> g, grand_total |-> t] :
             a \in TwoDecimals(10000 * SumOfItems(entries, "amount", 1, 0)),
             g \in TwoDecimals(SumOfItems(entries, "gst_amount", 1, 0)),
             t \in TwoDecimals(10000 * SumOfItems(entries, "amount", 1, 0)
                               + SumOfItems(entries, "gst_amount", 1, 0))}

\* what the number inputs hold when Add Item is pressed (min_value=0.0)
Quantities == {0, 5, 10}
UnitPrices == {0, 1, 2500}

NoBillForm ==
    [category |-> "", item |-> "", quantity |-> 0, unit_price |-> 0, details |-> <<None, None>>]

\* if selected_item and quantity > 0 and unit_price > 0: ... if hsn_code and gst_rate:
AddItemAccepts(form) ==
    /\ form.item # "" /\ form.quantity > 0 /\ form.unit_price > 0
    /\ Truthy(form.details[1]) /\ Truthy(form.details[2])

\* the "Add Item" button, and the rest of the script run: the items and
\* their totals are drawn unless the conversion of the rate raised
AddItem ==
    /\ pc = "idle" /\ gstin_number # "" /\ Len(bill_items) < MaxItems
    /\ \E db_ok \in BOOLEAN, lookup_ok \in BOOLEAN :
       \E selected_category \in {""} \cup get_all_categories(db_ok) :
       \E selected_item \in {""} \cup (IF selected_category = "" THEN {}
                                       ELSE get_items_by_category(selected_category, db_ok)) :
       \E quantity \in Quantities, unit_price \in UnitPrices :
          /\ bill_form' = [category |-> selected_category, item |-> selected_item,
                           quantity |-> quantity, unit_price |-> unit_price,
                           details |-> IF selected_item # "" /\ quantity > 0 /\ unit_price > 0
                                       THEN get_item_details(selected_item, lookup_ok)
                                       ELSE <<None, None>>]
          /\ IF AddItemAccepts(bill_form')
             THEN IF RateConverts(bill_form'.details[2])
                  THEN /\ bill_items' =
                             Append(bill_items,
                                    item_data(selected_category, selected_item,
                                              bill_form'.details[1], quantity, unit_price,
                                              bill_form'.details[2]))
                       /\ bill_shown' \in TotalsShown(bill_items')
                  ELSE /\ bill_items' = bill_items
                       /\ bill_shown' = NoTotals
             ELSE /\ bill_items' = bill_items
                  /\ bill_shown' \in TotalsShown(bill_items')
    /\ bill_pressed' = "add"
    /\ UNCHANGED <<session_vars, pc, extract_vars, world_vars, gst_vars, date_vars, page_vars,
                   gstin_number, auth_vars, signup_vars>>

\* "Clear All Items", a button the page has while there are items
ClearAllItems ==
    /\ pc = "idle" /\ gstin_number # "" /\ bill_items # <<>> /\ bill_shown # NoTotals
    /\ bill_items' = <<>>
    /\ bill_shown' = NoTotals
    /\ bill_pressed' = "clear"
    /\ UNCHANGED <<session_vars, pc, extract_vars, world_vars, gst_vars, date_vars, page_vars,
                   gstin_number, bill_form, auth_vars, signup_vars>>

\* the first run of the page: the keys are absent and are set
OpenBillPage ==
    /\ pc = "idle" /\ gstin_number = ""
    /\ bill_items' = <<>>
    /\ gstin_number' \in generate_gstin
    /\ UNCHANGED <<session_vars, pc, extract_vars, world_vars, gst_vars, date_vars, page_vars,
                   bill_pressed, bill_form, bill_shown, auth_vars, signup_vars>>

\* "Generate New GSTIN", followed by st.rerun()
GenerateNewGstin ==
    /\ pc = "idle" /\ gstin_number # ""
    /\ gstin_number' \in generate_gstin
    /\ bill_pressed' = "gstin"
    /\ bill_shown' \in TotalsShown(bill_items)
    /\ UNCHANGED <<session_vars, pc, extract_vars, world_vars, gst_vars, date_vars, page_vars,
                   bill_items, bill_form, auth_vars, signup_vars>>

(***************************************************************************)
(* Initial states and specifications.                                      *)
(***************************************************************************)
SessionIdle ==
    /\ verified_invoices = <<>>
    /\ all_extracted_data = <<>>
    /\ current_file_index = 0
    /\ extraction_complete = FALSE
    /\ show_final_table = FALSE
    /\ same_list = FALSE

ExtractIdle ==
    /\ file_path = FALSE
    /\ invoice_text = ""
    /\ response = ""
    /\ extracted_json = None
    /\ return_value = None

WorldIdle ==
    /\ temp_files = {}
    /\ llm_log = <<>>

GstIdle ==
    /\ gst_lines = <<>>
    /\ gst_text = ""
    /\ gst_total = 0

DateIdle ==
    /\ date_input = ""
    /\ date_intent = <<>>
    /\ date_output = ""

PageIdle ==
    /\ pressed = ""
    /\ form_values = NoForm
    /\ stats = None
    /\ csv_data = None

\* app2.py run on its own: the keys of main_app.py are absent
AuthIdle ==
    /\ current_page = ""
    /\ authenticated = FALSE
    /\ user = NoUser
    /\ auth_mode = ""
    /\ current_nav = ""
    /\ users = <<>>
    /\ rendered = ""
    /\ signed_in = <<>>

\* the bill page was not opened: its keys are absent
BillIdle ==
    /\ bill_items = <<>>
    /\ gstin_number = ""
    /\ bill_pressed = ""
    /\ bill_form = NoBillForm
    /\ bill_shown = NoTotals

\* no session is in create_user
SignupIdle ==
    /\ signup = <<>>
    /\ db_lock = 0

\* the page with a batch uploaded and nothing extracted yet
Init ==
    /\ uploaded_invoices \in Batches
    /\ manual_mode \in BOOLEAN
    /\ SessionIdle
    /\ pc = "idle" /\ run = 0 /\ loop_i = 0
    /\ uploaded_file = NoDoc /\ epc = "idle"
    /\ ExtractIdle /\ WorldIdle /\ call_log = <<>>
    /\ GstIdle /\ DateIdle /\ PageIdle /\ AuthIdle /\ BillIdle /\ SignupIdle

Next ==
    \/ PressExtract
    \/ CallExtract
    \/ SaveUpload
    \/ ReadPdf
    \/ ReadImage
    \/ CleanupAndCheck
    \/ InvokeModel
    \/ ParseResponse
    \/ Validate
    \/ FormatAndReturn
    \/ AppendResult
    \/ FinishExtract

Spec == Init /\ [][Next]_vars

\* one call of extract_invoice_data, on any of ExtractDocs
InitExtract ==
    /\ uploaded_file \in ExtractDocs
    /\ uploaded_invoices = <<uploaded_file>>
    /\ manual_mode = FALSE
    /\ SessionIdle
    /\ pc = "call" /\ run = 1 /\ loop_i = 1
    /\ epc = "save"
    /\ ExtractIdle /\ WorldIdle /\ call_log = <<<<1, 1>>>>
    /\ GstIdle /\ DateIdle /\ PageIdle /\ AuthIdle /\ BillIdle /\ SignupIdle

NextExtract ==
    \/ SaveUpload
    \/ ReadPdf
    \/ ReadImage
    \/ CleanupAndCheck
    \/ InvokeModel
    \/ ParseResponse
    \/ Validate
    \/ FormatAndReturn

SpecExtract == InitExtract /\ [][NextExtract]_vars

\* calculate_total_gst_from_text on a transcript of at most MaxLines lines
InitGst ==
    /\ gst_lines \in UNION {[1..n -> GstLines] : n \in 0..MaxLines}
    /\ gst_text = JoinLines(gst_lines)
    /\ gst_total = 0
    /\ uploaded_invoices = <<>> /\ manual_mode = FALSE
    /\ SessionIdle
    /\ pc = "gst" /\ run = 0 /\ loop_i = 0
    /\ uploaded_file = NoDoc /\ epc = "idle"
    /\ ExtractIdle /\ WorldIdle /\ call_log = <<>>
    /\ DateIdle /\ PageIdle /\ AuthIdle /\ BillIdle /\ SignupIdle

NextGst == ComputeGst

SpecGst == InitGst /\ [][NextGst]_vars

\* format_date_to_ymd on a spelling of a calendar date, or on another string
InitDate ==
    /\ \/ \E date \in CalendarDates, style \in Styles :
             /\ date_input = Spell(date, style)
             /\ date_intent = date
       \/ /\ date_input \in OtherDates
          /\ date_intent = <<>>
    /\ date_output = ""
    /\ uploaded_invoices = <<>> /\ manual_mode = FALSE
    /\ SessionIdle
    /\ pc = "date" /\ run = 0 /\ loop_i = 0
    /\ uploaded_file = NoDoc /\ epc = "idle"
    /\ ExtractIdle /\ WorldIdle /\ call_log = <<>>
    /\ GstIdle /\ PageIdle /\ AuthIdle /\ BillIdle /\ SignupIdle

NextDate == FormatDate

SpecDate == InitDate /\ [][NextDate]_vars

\* a session of the page from the press of Extract on: the batch is
\* extracted, its records are verified or shown at once, and the table page
\* computes its summary and its export
InitSession ==
    /\ uploaded_invoices \in SessionBatches
    /\ manual_mode \in BOOLEAN
    /\ SessionIdle
    /\ pc = "loop" /\ run = 1 /\ loop_i = 1
    /\ uploaded_file = NoDoc /\ epc = "idle"
    /\ ExtractIdle /\ WorldIdle /\ call_log = <<>>
    /\ GstIdle /\ DateIdle /\ PageIdle /\ AuthIdle /\ BillIdle /\ SignupIdle

NextSession ==
    \/ CallExtract
    \/ SaveUpload
    \/ ReadPdf
    \/ ReadImage
    \/ CleanupAndCheck
    \/ InvokeModel
    \/ ParseResponse
    \/ Validate
    \/ FormatAndReturn
    \/ AppendResult
    \/ FinishExtract
    \/ Verify
    \/ Skip
    \/ Previous
    \/ SetManualMode
    \/ TableViewPage
    \/ LeaveTablePage

SpecSession == InitSession /\ [][NextSession]_vars

\* the uploads that take the place of a batch: one document
Replacements == {<<doc>> : doc \in SessionDocs}

\* the user replaces the files in the upload widget after a run: the script
\* runs again with the session state as it is
ChangeUpload ==
    /\ pc = "idle" /\ extraction_complete /\ run < MaxRuns
    /\ \E files \in Replacements :
          /\ files # uploaded_invoices
          /\ uploaded_invoices' = files
    /\ show_final_table' =
          ScriptTail(uploaded_invoices', manual_mode, extraction_complete, current_file_index,
                     all_extracted_data, verified_invoices, show_final_table)
    /\ UNCHANGED <<manual_mode, verified_invoices, all_extracted_data, current_file_index,
                   extraction_complete, same_list, run, loop_i>>
    /\ UNCHANGED <<pc, extract_vars, world_vars, gst_vars, date_vars, page_vars, auth_vars, bill_vars, signup_vars>>

\* the extraction page with a batch uploaded, through several presses of
\* Extract with verification and the table page in between
InitPage ==
    /\ uploaded_invoices \in SessionBatches
    /\ manual_mode \in BOOLEAN
    /\ SessionIdle
    /\ pc = "idle" /\ run = 0 /\ loop_i = 0
    /\ uploaded_file = NoDoc /\ epc = "idle"
    /\ ExtractIdle /\ WorldIdle /\ call_log = <<>>
    /\ GstIdle /\ DateIdle /\ PageIdle /\ AuthIdle /\ BillIdle /\ SignupIdle

NextPage ==
    \/ PressExtract
    \/ CallExtract
    \/ SaveUpload
    \/ ReadPdf
    \/ ReadImage
    \/ CleanupAndCheck
    \/ InvokeModel
    \/ ParseResponse
    \/ Validate
    \/ FormatAndReturn
    \/ AppendResult
    \/ FinishExtract
    \/ Verify
    \/ Skip
    \/ Previous
    \/ SetManualMode
    \/ ChangeUpload
    \/ TableViewPage
    \/ LeaveTablePage

SpecPage == InitPage /\ [][NextPage]_vars

\* the bill page before its first script run
InitGstin ==
    /\ uploaded_invoices = <<>> /\ manual_mode = FALSE
    /\ SessionIdle
    /\ pc = "idle" /\ run = 0 /\ loop_i = 0
    /\ uploaded_file = NoDoc /\ epc = "idle"
    /\ ExtractIdle /\ WorldIdle /\ call_log = <<>>
    /\ GstIdle /\ DateIdle /\ PageIdle /\ AuthIdle /\ BillIdle /\ SignupIdle

NextGstin ==
    \/ OpenBillPage
    \/ GenerateNewGstin

SpecGstin == InitGstin /\ [][NextGstin]_vars

\* the bill page after its first script run, which drew one of the
\* identifiers: items are added and cleared
InitBill ==
    /\ uploaded_invoices = <<>> /\ manual_mode = FALSE
    /\ SessionIdle
    /\ pc = "idle" /\ run = 0 /\ loop_i = 0
    /\ uploaded_file = NoDoc /\ epc = "idle"
    /\ ExtractIdle /\ WorldIdle /\ call_log = <<>>
    /\ GstIdle /\ DateIdle /\ PageIdle /\ AuthIdle /\ SignupIdle
    /\ bill_items = <<>>
    /\ gstin_number = "01ABCDEFGHIJ1ZA"
    /\ bill_pressed = ""
    /\ bill_form = NoBillForm
    /\ bill_shown = NoTotals

NextBill ==
    \/ AddItem
    \/ ClearAllItems

SpecBill == InitBill /\ [][NextBill]_vars

\* the sessions have each submitted a sign-up form; the table is empty or
\* holds one account
InitSignUp ==
    /\ uploaded_invoices = <<>> /\ manual_mode = FALSE
    /\ SessionIdle
    /\ pc = "idle" /\ run = 0 /\ loop_i = 0
    /\ uploaded_file = NoDoc /\ epc = "idle"
    /\ ExtractIdle /\ WorldIdle /\ call_log = <<>>
    /\ GstIdle /\ DateIdle /\ PageIdle /\ BillIdle
    /\ current_page = "auth" /\ authenticated = FALSE /\ user = NoUser
    /\ auth_mode = "signup" /\ current_nav = "" /\ rendered = "auth" /\ signed_in = <<>>
    /\ users \in {<<>>, <<UserRow(<<>>, "Asha", "asha@ca.in", "123412341234", "secret1", "CA")>>}
    /\ signup \in [Sessions -> [pc : {"select"}, form : ConcurrentForms, result : {""}]]
    /\ db_lock = 0

NextSignUp ==
    \/ \E session \in Sessions : SelectUser(session)
    \/ \E session \in Sessions : InsertUser(session)
    \/ \E session \in Sessions : InsertTimesOut(session)
    \/ \E session \in Sessions : CommitUser(session)
    \/ \E session \in Sessions : DropConnection(session)

SpecSignUp == InitSignUp /\ [][NextSignUp]_vars

\* the Sign Out button with the keys of the pages left in the session
SignOutKeeping ==
    /\ rendered \in AppPages /\ pc = "idle"
    /\ user' = NoUser
    /\ current_nav' = ""
    /\ current_page' = "landing"
    /\ authenticated' = FALSE
    /\ signed_in' = <<>>
    /\ rendered' = Routed(current_page', authenticated', user', current_nav', TRUE)
    /\ UNCHANGED <<auth_mode, users>>
    /\ UNCHANGED <<app2_vars, signup_vars>>

\* the Sign Out button of the sidebar: every key but current_page and
\* auth_mode is deleted, the keys of the pages and of their keyed widgets
\* among them; st.rerun() then draws the landing page, and the inputs of a
\* page that is not drawn are dropped with it.  The users table and the
\* files on disk are not session state.
SignOut ==
    /\ rendered \in AppPages /\ pc = "idle"
    /\ user' = NoUser
    /\ current_nav' = ""
    /\ current_page' = "landing"
    /\ authenticated' = FALSE
    /\ signed_in' = <<>>
    /\ rendered' = Routed(current_page', authenticated', user', current_nav', TRUE)
    /\ verified_invoices' = <<>>
    /\ all_extracted_data' = <<>>
    /\ current_file_index' = 0
    /\ extraction_complete' = FALSE
    /\ show_final_table' = FALSE
    /\ same_list' = FALSE
    /\ bill_items' = <<>>
    /\ gstin_number' = ""
    /\ uploaded_invoices' = <<>>
    /\ manual_mode' = FALSE
    /\ pressed' = "" /\ form_values' = NoForm /\ stats' = None /\ csv_data' = None
    /\ bill_pressed' = "" /\ bill_form' = NoBillForm /\ bill_shown' = NoTotals
    /\ UNCHANGED <<auth_mode, users>>
    /\ UNCHANGED <<run, loop_i, pc, extract_vars, world_vars, gst_vars, date_vars, signup_vars>>

\* a session of main_app.py from its first script run on: the landing page
\* is drawn, the users table is empty or holds one account
InitAuth ==
    /\ current_page = "landing"
    /\ authenticated = FALSE
    /\ user = NoUser
    /\ auth_mode = ""
    /\ current_nav = ""
    /\ users \in {<<>>, <<UserRow(<<>>, "Asha", "asha@ca.in", "123412341234", "secret1", "CA")>>}
    /\ rendered = "landing"
    /\ signed_in = <<>>
    /\ uploaded_invoices = <<>> /\ manual_mode = FALSE
    /\ SessionIdle
    /\ pc = "idle" /\ run = 0 /\ loop_i = 0
    /\ uploaded_file = NoDoc /\ epc = "idle"
    /\ ExtractIdle /\ WorldIdle /\ call_log = <<>>
    /\ GstIdle /\ DateIdle /\ PageIdle /\ BillIdle /\ SignupIdle

NextAuth ==
    \/ Launch
    \/ Back
    \/ SelectAuthMode
    \/ SignIn
    \/ SignUp
    \/ Navigate
    \/ RerunScript
    \/ SignOut

SpecAuth == InitAuth /\ [][NextAuth]_vars

\* the file uploader of the extraction page, empty so far, is given one
\* document; the rest of the script run follows
UploadInvoices ==
    /\ pc = "idle" /\ uploaded_invoices = <<>>
    /\ \E files \in Replacements :
          /\ uploaded_invoices' = files
          /\ show_final_table' =
                ScriptTail(files, manual_mode, extraction_complete, current_file_index,
                           all_extracted_data, verified_invoices, show_final_table)
    /\ UNCHANGED <<manual_mode, verified_invoices, all_extracted_data, current_file_index,
                   extraction_complete, same_list, run, loop_i>>
    /\ UNCHANGED <<pc, extract_vars, world_vars, gst_vars, date_vars, page_vars,
                   auth_vars, bill_vars, signup_vars>>

\* main_app.py with the pages of app2.py behind the sign-in: two accounts
\* exist, the pages act while they are drawn, and the buttons of the
\* sidebar are pressed between the script runs
InitPortal ==
    /\ current_page = "landing"
    /\ authenticated = FALSE
    /\ user = NoUser
    /\ auth_mode = ""
    /\ current_nav = ""
    /\ users = <<UserRow(<<>>, "Asha", "asha@ca.in", "123412341234", "secret1", "CA"),
                 UserRow(<<UserRow(<<>>, "Asha", "asha@ca.in", "123412341234", "secret1",
                                   "CA")>>,
                         "Ravi", "ravi@ca.in", "567856785678", "secret2", "Business Owner")>>
    /\ rendered = "landing"
    /\ signed_in = <<>>
    /\ uploaded_invoices = <<>> /\ manual_mode = FALSE
    /\ SessionIdle
    /\ pc = "idle" /\ run = 0 /\ loop_i = 0
    /\ uploaded_file = NoDoc /\ epc = "idle"
    /\ ExtractIdle /\ WorldIdle /\ call_log = <<>>
    /\ GstIdle /\ DateIdle /\ PageIdle /\ BillIdle /\ SignupIdle

\* one document to upload, one draw of the identifier, one filling of the
\* bill form
PortalFile == "full.pdf"
PortalGstin == "01ABCDEFGHIJ1ZA"
PortalForm == [item |-> "Milk", quantity |-> 10, unit_price |-> 2500]

NextPortal ==
    \/ Launch
    \/ SelectAuthMode
    \/ SignIn
    \/ pc = "idle" /\ Navigate
    \/ SignOut
    \/ rendered = "extraction" /\ UploadInvoices /\ uploaded_invoices'[1].name = PortalFile
    \/ rendered = "extraction" /\ SetManualMode
    \/ rendered = "extraction" /\ PressExtract
    \/ CallExtract
    \/ SaveUpload
    \/ ReadPdf
    \/ CleanupAndCheck
    \/ InvokeModel
    \/ ParseResponse
    \/ Validate
    \/ FormatAndReturn
    \/ AppendResult
    \/ FinishExtract
    \/ rendered = "extraction" /\ Verify
    \/ rendered = "extraction" /\ Skip
    \/ rendered = "bill" /\ OpenBillPage /\ gstin_number' = PortalGstin
    \/ rendered = "bill" /\ AddItem /\ bill_form'.item = PortalForm.item
                         /\ bill_form'.quantity = PortalForm.quantity
                         /\ bill_form'.unit_price = PortalForm.unit_price
    \/ rendered = "bill" /\ ClearAllItems

SpecPortal == InitPortal /\ [][NextPortal]_vars



(***************************************************************************)
(* The claims.                                                             *)
(***************************************************************************)
\* extract_invoice_data has returned a record (a dict, not None)
ReturnedRecord == pc = "call" /\ epc = "returned" /\ return_value.type = "obj"

RecordFields ==
    {"invoice_no", "gstin_no", "seller_name", "customer_name", "grand_total", "total_gst",
     "place", "date", "state", "items"}

\* C1: every record extract_invoice_data returns has all ten fields present
\* and non-null, whatever object the reply decoded to and whether or not a
\* fallback matches the transcript.
C1_AllFieldsPresent ==
    ReturnedRecord =>
        \A field \in RecordFields :
            HasKey(return_value, field) /\ Get(return_value, field).type # "null"

\* the placeholder, or what format_date_to_ymd makes of it
IsPlaceholder(x) == x.type = "str" /\ x.value \in {"N/A", "N-A"}

\* C2: in the record extract_invoice_data returns no field holds "N/A" or a
\* string derived from it.
C2_NoPlaceholder ==
    ReturnedRecord =>
        \A field \in DOMAIN return_value.value : ~IsPlaceholder(return_value.value[field])

FallbackFields ==
    {"invoice_no", "gstin_no", "grand_total", "total_gst", "date", "place", "state"}

\* missing as C3 defines it: key absent, "", "N/A", or zero for the two amounts
StatedMissing(record, key) ==
    \/ ~HasKey(record, key)
    \/ (Get(record, key).type = "str" /\ Get(record, key).value \in {"", "N/A"})
    \/ (key \in {"grand_total", "total_gst"} /\ EqualsZero(Get(record, key)))

\* C3: for each of the seven fields with a fallback, a value of the reply that
\* is missing (the amounts' "N/A" included) is replaced by the fallback-derived
\* value when the fallback matches the transcript.
C3_FallbackApplied ==
    LET parsed == parse_gemini_response(response)
    IN  (pc = "call" /\ epc = "format" /\ parsed.type = "obj" /\ Truthy(parsed)) =>
            \A key \in FallbackFields :
                (StatedMissing(parsed, key) /\ Fallback(key, invoice_text).found)
                    => Get(extracted_json, key) = Fallback(key, invoice_text).value

RECURSIVE MethodSum(_, _)
\* what the lines carrying one method's labels state in all
MethodSum(lines, method) ==
    IF lines = <<>> THEN 0
    ELSE (IF Head(lines).method = method THEN Head(lines).amount ELSE 0)
         + MethodSum(Tail(lines), method)

FirstPositiveSum(lines) ==
    IF MethodSum(lines, 1) > 0 THEN MethodSum(lines, 1)
    ELSE IF MethodSum(lines, 2) > 0 THEN MethodSum(lines, 2)
    ELSE MethodSum(lines, 3)

\* C4: calculate_total_gst_from_text returns the sum of the first of the three
\* methods (explicit total labels; CGST plus SGST; IGST) whose matches add up
\* to a positive sum, a later method being evaluated whenever the earlier
\* ones gave none, and 0 when none does.
C4_FirstPositiveMethod ==
    pc = "gst_done" => gst_total = FirstPositiveSum(gst_lines)

\* The spec's two examples do come out as C4 says.
C4_SpecExamples ==
    pc = "gst_done" =>
       /\ (gst_text = "CGST @9%: " \o Rupee \o "155.59\nSGST @9%: " \o Rupee \o "155.59"
              => gst_total = 31118)
       /\ (gst_text = "IGST @18%: " \o Rupee \o "381.36" => gst_total = 38136)

\* what one call of extract_invoice_data returns for a document
RecordOf(doc) ==
    IF doc.save # "ok" \/ ~AcquireWorks(doc) \/ Strip(doc.text) = "" \/ doc.llm # "ok"
    THEN None
    ELSE LET parsed == parse_gemini_response(doc.reply)
         IN  IF ~Truthy(parsed) THEN parsed
             ELSE IF parsed.type # "obj" THEN None
             ELSE WithFormattedDate(validate_extracted_data(parsed, doc.text, doc.name))

RECURSIVE RecordsOf(_, _)
\* the records of the documents from number k on that yield one, in upload
\* order, each with its document's file name
RecordsOf(docs, k) ==
    IF k > Len(docs) THEN <<>>
    ELSE (IF Truthy(RecordOf(docs[k]))
          THEN <<Put(RecordOf(docs[k]), "file_name", Str(docs[k].name))>>
          ELSE <<>>) \o RecordsOf(docs, k + 1)

CallsOfRun == SelectSeq(call_log, LAMBDA call : call[1] = run)

\* C5: whatever documents of the batch fail, the loop calls
\* extract_invoice_data for all N documents, in order, is at every moment at
\* a document of the batch and at a step that has a successor, and ends with all_extracted_data holding exactly the records of
\* the documents that yielded one, in upload order, each with its file name.
C5_BatchCompletes ==
    /\ (pc = "idle" /\ extraction_complete) =>
          /\ CallsOfRun = [k \in 1..Len(uploaded_invoices) |-> <<run, k>>]
          /\ all_extracted_data = RecordsOf(uploaded_invoices, 1)
    /\ pc = "loop" => loop_i \in 1..(Len(uploaded_invoices) + 1)
    /\ pc = "call" =>
          /\ loop_i \in 1..Len(uploaded_invoices)
          /\ epc \in {"save", "read", "cleanup", "invoke", "parse", "validate", "format",
                      "returned"}

C5_Witness ==
    /\ pc = "idle" /\ extraction_complete
    /\ Len(uploaded_invoices) = 2
    /\ uploaded_invoices[1].acquire = <<"error">>
    /\ uploaded_invoices[2].name = "a.pdf"
    /\ Len(all_extracted_data) = 1
    /\ Get(all_extracted_data[1], "file_name") = Str("a.pdf")

Count(log, entry) == Cardinality({n \in 1..Len(log) : log[n] = entry})

\* text acquisition gave the document a transcript that is not blank
HasTranscript(doc) == doc.save = "ok" /\ AcquireWorks(doc) /\ Strip(doc.text) # ""

\* the call for document k of run r has returned
Returned(r, k) ==
    \/ r < run
    \/ r = run /\ k < loop_i
    \/ r = run /\ k = loop_i /\ pc = "call" /\ epc = "returned"

\* C6: in a run the model service is invoked at most once per document: once
\* the document's call has returned, exactly once if its transcript is not
\* blank and never if it is blank or its acquisition failed; an invocation
\* that raised is not repeated, and the call returns None.
C6_OneInvocation ==
    \A r \in 1..run, k \in 1..Len(uploaded_invoices) :
        /\ Count(llm_log, <<r, k>>) <= 1
        /\ Returned(r, k) =>
              Count(llm_log, <<r, k>>) = (IF HasTranscript(uploaded_invoices[k]) THEN 1 ELSE 0)
        /\ (r = run /\ k = loop_i /\ pc = "call" /\ epc = "returned"
                /\ HasTranscript(uploaded_invoices[k]) /\ uploaded_invoices[k].llm = "error")
              => return_value.type = "null"

C6_Witness ==
    /\ pc = "idle" /\ extraction_complete
    /\ Len(uploaded_invoices) = 2
    /\ uploaded_invoices[1].llm = "error"
    /\ Strip(uploaded_invoices[2].text) = ""
    /\ llm_log = <<<<1, 1>>>>
    /\ all_extracted_data = <<>>

\* C7: when extract_invoice_data returns, on whatever path, the temporary
\* files its call created (the copy of the upload, the _processed.jpg) are
\* deleted.
C7_TempFilesDeleted ==
    (pc = "call" /\ epc = "returned") => temp_files \cap {UploadCopy, ProcessedImage} = {}

\* C8: for an object J, parse_gemini_response returns J for the bare
\* serialization of J, for it inside json code fences, and for it preceded by
\* prose without braces.
C8_SameObject ==
    (pc = "call" /\ epc = "validate") =>
        \A J \in Objects, form \in Forms :
            response = Render(J, form) => extracted_json = J

C8_Witness ==
    /\ pc = "call" /\ epc = "validate"
    /\ response = Render(FullRecord, "prose")
    /\ extracted_json = FullRecord

\* the calendar date as YYYY.MM.DD
Canonical(date) == Decimal(date[3]) \o "." \o TwoDigits(date[2]) \o "." \o TwoDigits(date[1])

\* C9: every spelling of one calendar date with day-month-year intent (day
\* first numeric with '-', '/' or '.', day first with a textual month, and
\* the canonical YYYY.MM.DD) is mapped to the canonical YYYY.MM.DD of that date.
C9_SpellingsAgree ==
    (pc = "date_done" /\ date_intent # <<>>) => date_output = Canonical(date_intent)

C9_Witness ==
    /\ pc = "date_done"
    /\ date_intent = <<4, 3, 2020>>
    /\ date_input = "04-Mar-2020"
    /\ date_output = "2020.03.04"

\* no format parses the cleaned string, and the manual month scan returns nothing
NothingMatches(s) ==
    LET cleaned == Replace(Replace(Strip(s), "/", "-"), ".", "-")
    IN  FirstFormat(cleaned, 1) = 0 /\ ~ManualScan(cleaned).returned

RECURSIVE Dashed(_)
\* s with each '/' and each '.' written as '-'
Dashed(s) ==
    IF s = "" THEN ""
    ELSE (IF Head(s) \in {"/", "."} THEN "-" ELSE SubSeq(s, 1, 1)) \o Dashed(Tail(s))

\* C10 as stated: when no format parses the string and the manual scan finds
\* nothing, format_date_to_ymd returns its input unchanged, character for
\* character, separators and surrounding whitespace included.
C10_InputUnchanged ==
    (pc = "date_done" /\ NothingMatches(date_input)) => date_output = date_input

\* C10, amended: in that case format_date_to_ymd returns its input with the
\* surrounding whitespace removed and every '/' and '.' replaced by '-'; an
\* error inside the manual scan is swallowed and ends the same way.
C10_InputCleaned ==
    (pc = "date_done" /\ NothingMatches(date_input)) => date_output = Dashed(Strip(date_input))

C10_Witness ==
    /\ pc = "date_done"
    /\ NothingMatches(date_input)
    /\ date_input = " 2020/03 "
    /\ date_output = "2020-03"


\* the table page has computed the summary of the verified invoices
SummaryComputed == pc = "table" /\ stats.type # "null"

\* the amount a record states under a key, in hundredths, 0 without the key
AmountOf(record, key) == IF key \in DOMAIN record.value THEN record.value[key].value ELSE 0

RECURSIVE Total(_, _)
Total(records, key) ==
    IF records = <<>> THEN 0 ELSE AmountOf(Head(records), key) + Total(Tail(records), key)

\* C11: whenever the table page calls calculate_summary_statistics, the
\* verified invoices are left as they were and the summary it returns states
\* their number, the sum of their grand_total, the sum of their total_gst, and
\* as taxable amount exactly the first sum minus the second.
C11_SummaryOfRecords ==
    [][(pc = "idle" /\ pc' = "table" /\ stats'.type # "null") =>
          /\ verified_invoices' = verified_invoices
          /\ stats'.type = "obj"
          /\ Get(stats', "total_invoices") = Num(100 * Len(verified_invoices))
          /\ Get(stats', "total_grand_total") = Num(Total(verified_invoices, "grand_total"))
          /\ Get(stats', "total_gst_amount") = Num(Total(verified_invoices, "total_gst"))
          /\ Get(stats', "total_taxable_amount") =
                Num(Get(stats', "total_grand_total").value
                    - Get(stats', "total_gst_amount").value)]_vars

\* the summary of two different invoices with tax was computed
C11_Witness ==
    /\ SummaryComputed /\ stats.type = "obj"
    /\ Len(verified_invoices) = 2
    /\ verified_invoices[1] # verified_invoices[2]
    /\ Get(stats, "total_gst_amount").value > 0
    /\ Get(stats, "total_grand_total").value > Get(stats, "total_gst_amount").value

\* the table page has built the tabular export
CsvBuilt == pc = "table" /\ csv_data.type = "list"

\* the number of rows an invoice has in the export: one per line item, one
\* for an invoice without line items
ItemCount(record) ==
    IF HasKey(record, "items") /\ Get(record, "items").type = "list"
    THEN Len(Get(record, "items").value) ELSE 0
RowsFor(record) == IF ItemCount(record) = 0 THEN 1 ELSE ItemCount(record)

RECURSIVE RowFileNames(_)
\* the file name column of the invoice rows: each invoice's name, once per row
RowFileNames(records) ==
    IF records = <<>> THEN <<>>
    ELSE [i \in 1..RowsFor(Head(records)) |-> GetOr(Head(records), "file_name", Str(""))]
         \o RowFileNames(Tail(records))

\* C12 as stated: the export has the rows of the invoices followed by four
\* summary rows, so as many rows as the invoices have plus 4.
C12_FourSummaryRows ==
    CsvBuilt => Len(csv_data.value) = Len(RowFileNames(verified_invoices)) + 4

\* C12, amended: the export has one row per line item of every invoice (one
\* for an invoice without line items), in invoice order, followed by exactly
\* five rows: the heading SUMMARY STATISTICS and the four statistics; the
\* export is built whenever the table page computes the summary.
C12_FiveSummaryRows ==
    /\ SummaryComputed => CsvBuilt
    /\ CsvBuilt =>
          LET rows == csv_data.value
              n == Len(RowFileNames(verified_invoices))
          IN  /\ Len(rows) = n + 5
              /\ [i \in 1..n |-> Get(rows[i], "File Name")] = RowFileNames(verified_invoices)
              /\ Get(rows[n + 1], "File Name") = Str("SUMMARY STATISTICS")
              /\ \A i \in 2..5 : StartsAt(Get(rows[n + i], "File Name").value, "Total ", 1)
              /\ \A i \in 1..5 : \A column \in DOMAIN rows[n + i].value \ {"File Name"} :
                    Get(rows[n + i], column) = Str("")

\* the export of an invoice with two line items and one without any was built
C12_Witness ==
    /\ CsvBuilt
    /\ \E k \in 1..Len(verified_invoices) : ItemCount(verified_invoices[k]) = 2
    /\ \E k \in 1..Len(verified_invoices) : ItemCount(verified_invoices[k]) = 0

NineFields ==
    {"invoice_no", "gstin_no", "seller_name", "customer_name", "grand_total", "total_gst",
     "place", "date", "state"}

\* C13: a press of Verify appends to verified_invoices one record whose nine
\* scalar fields are the submitted form values and whose file_name is that of
\* the current document; the records of all_extracted_data and the records
\* verified before are as they were.
C13_VerifyAppends ==
    [][(pressed' = "verify" /\ current_file_index' = current_file_index + 1) =>
          /\ Len(verified_invoices') = Len(verified_invoices) + 1
          /\ \A key \in NineFields :
                Get(verified_invoices'[Len(verified_invoices')], key) = form_values'[key]
          /\ Get(verified_invoices'[Len(verified_invoices')], "file_name")
                = Get(all_extracted_data[current_file_index + 1], "file_name")
          /\ \A k \in 1..Len(all_extracted_data) :
                all_extracted_data'[k] = all_extracted_data[k]
          /\ \A k \in 1..Len(verified_invoices) :
                verified_invoices'[k] = verified_invoices[k]]_vars

\* Verify was pressed on the second record with values typed over the
\* record's, after the first record was verified as shown
C13_Witness ==
    /\ pressed = "verify" /\ current_file_index = 2 /\ ~same_list
    /\ Len(verified_invoices) = 2
    /\ form_values.invoice_no = Get(verified_invoices[2], "invoice_no")
    /\ form_values.invoice_no # Get(all_extracted_data[2], "invoice_no")
    /\ form_values.grand_total # Get(all_extracted_data[2], "grand_total")
    /\ Get(verified_invoices[1], "invoice_no") = Get(all_extracted_data[1], "invoice_no")


(***************************************************************************)
(* C14.  Whatever the sequence of Launch, Back, sign-in attempts,          *)
(* sign-ups, navigation clicks and Sign Out, the extraction, table and     *)
(* bill pages are drawn only while authenticated is true and user is set   *)
(* to the account of a row of the users table whose email and password     *)
(* verify_user accepted after the last Sign Out.                           *)
(***************************************************************************)
C14_PagesNeedSignIn ==
    rendered \in AppPages =>
        /\ current_page = "main_app"
        /\ authenticated
        /\ user # NoUser
        /\ signed_in # <<>>
        /\ \E k \in Matching(users, signed_in[1], signed_in[2]) : user = UserOf(users[k])

\* the table page drawn for an account that was created by sign-up
C14_Witness ==
    /\ rendered = "table"
    /\ user.email = "ravi@ca.in"
    /\ Len(users) = 2

RECURSIVE FirstDecoded(_, _)
\* the value of the first of texts[k..] that json.loads accepts, None when none is
FirstDecoded(texts, k) ==
    IF k > Len(texts) THEN None
    ELSE IF json_loads(texts[k]).ok THEN json_loads(texts[k]).v
    ELSE FirstDecoded(texts, k + 1)

\* the reply from its first '{' to its last '}'
FromFirstToLastBrace(reply) == SubSeq(reply, Find(reply, "{"), RFind(reply, "}"))
\* the reply with its code-fence markers removed
WithoutFences(reply) == Strip(Replace(Replace(reply, Fence \o "json", ""), Fence, ""))

C16_ObjectOrNone ==
    (pc = "call" /\ epc = "validate") => extracted_json.type \in {"obj", "null"}

\* two values of the same type, equal
Same(a, b) == a.type = b.type /\ a.value = b.value

\* a key held with the same value, or absent, in both records
SameField(before, after, key) ==
    /\ HasKey(after, key) = HasKey(before, key)
    /\ Same(Get(after, key), Get(before, key))

\* the step in which validate_extracted_data runs on a decoded object
ValidateStep ==
    /\ pc = "call" /\ epc = "validate" /\ epc' = "format"
    /\ extracted_json.type = "obj" /\ Truthy(extracted_json)

\* the fields whose fallback walks a list of candidates
ListedFields == {"invoice_no", "grand_total", "date", "place", "state"}

CandidatePatterns(key) ==
    CASE key = "invoice_no" -> invoice_patterns
      [] key = "grand_total" -> total_patterns
      [] key = "date" -> date_patterns
      [] key = "place" -> place_patterns

CandidateCount(key) == IF key = "state" THEN Len(states) ELSE Len(CandidatePatterns(key))

\* candidate k of the field matches somewhere in the transcript
CandidateMatches(key, k, text) ==
    IF key = "state" THEN Contains(MapLower(text), MapLower(states[k]))
    ELSE Search(CandidatePatterns(key)[k], text).found

\* the text candidate k of a pattern list captures, at its leftmost match
Captured(key, k, text) == Search(CandidatePatterns(key)[k], text).group

\* the capture of candidate k of total_patterns is a number once its commas are gone
Converts(k, text) == float(Replace(Captured("grand_total", k, text), ",", "")).ok

\* the value candidate k gives the field
CandidateValue(key, k, text) ==
    CASE key = "state" -> Str(states[k])
      [] key = "grand_total" -> Num(float(Replace(Captured(key, k, text), ",", "")).v)
      [] key = "date" -> Str(Captured(key, k, text))
      [] OTHER -> Str(Strip(Captured(key, k, text)))

Least(S) == CHOOSE k \in S : \A j \in S : k <= j

\* the candidates that count as a match; convertible: for grand_total, only
\* those whose capture is a number
Hits(key, text, convertible) ==
    {k \in 1..CandidateCount(key) :
        /\ CandidateMatches(key, k, text)
        /\ (convertible /\ key = "grand_total") => Converts(k, text)}

\* the field holds what the first hit in list order gives it, and is as it
\* was when there is no hit
FirstHitDecides(before, after, key, text, convertible) ==
    IF Hits(key, text, convertible) = {} THEN SameField(before, after, key)
    ELSE /\ key = "grand_total" => Converts(Least(Hits(key, text, convertible)), text)
         /\ Same(Get(after, key),
                 CandidateValue(key, Least(Hits(key, text, convertible)), text))

\* C17 as stated: in the fallbacks of invoice_no, grand_total, date, place
\* and state the first candidate in list order that matches anywhere in the
\* transcript gives the field its value, wherever the matches are, and no
\* later candidate changes it.
C17_FirstMatchDecides ==
    [][ValidateStep =>
          \A key \in ListedFields :
              Missing(extracted_json, key) =>
                  FirstHitDecides(extracted_json, extracted_json', key, invoice_text, FALSE)]_vars

\* C17, amended: as stated, the candidates of grand_total counting as
\* matching only when their capture converts to a number.
C17_FirstUsableMatchDecides ==
    [][ValidateStep =>
          \A key \in ListedFields :
              Missing(extracted_json, key) =>
                  FirstHitDecides(extracted_json, extracted_json', key, invoice_text, TRUE)]_vars

\* candidates later in the list stand earlier in the transcript
C17_Witness ==
    /\ pc = "call" /\ epc = "format"
    /\ invoice_text = OrderText
    /\ parse_gemini_response(response) = DefaultsRecord
    /\ Get(extracted_json, "invoice_no") = Str("A-1")
    /\ Get(extracted_json, "state") = Str("Delhi")
    /\ Get(extracted_json, "place") = Str("Pune\nKerala")
    /\ Get(extracted_json, "grand_total") = Num(7000)

\* C18: in the grand_total fallback a capture that is no number once its
\* commas are stripped is passed over: the patterns after it are still tried
\* in order, validate_extracted_data does not fail, and grand_total keeps
\* the value it had when no pattern yields a number.
C18_CaptureSkipped ==
    [][(/\ pc = "call" /\ epc = "validate"
        /\ extracted_json.type = "obj" /\ Truthy(extracted_json)
        /\ Missing(extracted_json, "grand_total")
        /\ \E k \in 1..Len(total_patterns) :
               CandidateMatches("grand_total", k, invoice_text) /\ ~Converts(k, invoice_text))
       => /\ epc' = "format"
          /\ extracted_json'.type = "obj"
          /\ FirstHitDecides(extracted_json, extracted_json', "grand_total", invoice_text, TRUE)]_vars

\* a capture that is only a comma was passed over and the next label read
C18_Witness ==
    /\ pc = "call" /\ epc = "format"
    /\ invoice_text = CommaText
    /\ parse_gemini_response(response) = DefaultsRecord
    /\ Get(extracted_json, "grand_total") = Num(50000)

\* a field without a value: the key is absent or null, the string is empty
\* or "N/A", or, for the two amounts, the number is zero
WithoutValue(record, key) ==
    \/ ~HasKey(record, key)
    \/ Get(record, key).type = "null"
    \/ (Get(record, key).type = "str" /\ Get(record, key).value \in {"", "N/A"})
    \/ (key \in {"grand_total", "total_gst"} /\ Get(record, key).type = "num"
            /\ Get(record, key).value = 0)

\* C19: validate_extracted_data changes a field only when it is missing: a
\* value the reply gives for one of the seven fields with a fallback is
\* returned as it is even when a fallback pattern matches the transcript,
\* seller_name and customer_name are never changed, and items is only set
\* to the empty list when its key is absent.
C19_OnlyMissingChanged ==
    [][ValidateStep =>
          /\ \A key \in FallbackFields :
                 ~WithoutValue(extracted_json, key)
                     => SameField(extracted_json, extracted_json', key)
          /\ \A key \in {"seller_name", "customer_name"} :
                 SameField(extracted_json, extracted_json', key)
          /\ IF HasKey(extracted_json, "items")
             THEN SameField(extracted_json, extracted_json', "items")
             ELSE Same(Get(extracted_json', "items"), List(<<>>))]_vars

\* a full reply met a transcript whose labels all match other values
C19_Witness ==
    /\ pc = "call" /\ epc = "format"
    /\ invoice_text = OrderText
    /\ parse_gemini_response(response) = FullRecord
    /\ extracted_json = FullRecord
    /\ Fallback("invoice_no", invoice_text).found
    /\ Fallback("grand_total", invoice_text).found

\* YYYY.MM.DD: a four-digit year, a month from 01 to 12, a two-digit day
WellFormedDate(s) ==
    /\ Len(s) = 10
    /\ IsDigits(SubSeq(s, 1, 4)) /\ Char(s, 5) = "."
    /\ IsDigits(SubSeq(s, 6, 7)) /\ Char(s, 8) = "."
    /\ IsDigits(SubSeq(s, 9, 10))
    /\ DigitsVal(SubSeq(s, 6, 7), 0) \in 1..12

\* C20: for every input the result of format_date_to_ymd is a well-formed
\* canonical date or the input itself; the manual month-name scan, which
\* takes the first token as the day and the third as the year, never returns
\* a string whose day or year is not numeric.
C20_CanonicalOrOriginal ==
    pc = "date_done" => (WellFormedDate(date_output) \/ date_output = date_input)

(***************************************************************************)
(* C21.  "Previous File" is offered only while current_file_index is       *)
(* greater than 0; a press takes exactly one from the cursor and removes   *)
(* exactly the last record of verified_invoices, every other verified      *)
(* record and all_extracted_data staying as they were, and the cursor      *)
(* never goes below 0.                                                     *)
(***************************************************************************)
\* the step is a press of "Previous File"
PreviousStep ==
    /\ pc = "idle" /\ pc' = "idle"
    /\ pressed' = "previous"
    /\ current_file_index' # current_file_index

C21_PreviousUndoesLast ==
    [][PreviousStep =>
          /\ current_file_index > 0
          /\ current_file_index' = current_file_index - 1
          /\ current_file_index' >= 0
          /\ verified_invoices # <<>>
          /\ verified_invoices' = SubSeq(verified_invoices, 1, Len(verified_invoices) - 1)
          /\ all_extracted_data' = all_extracted_data]_vars

(***************************************************************************)
(* C22.  A press of Extract starts a fresh run: before any document is     *)
(* processed verified_invoices and all_extracted_data are empty,           *)
(* current_file_index is 0 and extraction_complete and show_final_table    *)
(* are false; when the run ends, all_extracted_data holds the records of   *)
(* the documents of this run and nothing else, and verified_invoices is    *)
(* empty or that same list.                                                *)
(***************************************************************************)
\* the step is a press of the Extract button
ExtractStep == run' = run + 1

\* the step ends the handler of the Extract button
FinishStep == pc = "loop" /\ pc' = "idle"

C22_FreshRun ==
    [][/\ ExtractStep =>
             /\ verified_invoices' = <<>>
             /\ all_extracted_data' = <<>>
             /\ current_file_index' = 0
             /\ ~extraction_complete'
             /\ ~show_final_table'
       /\ FinishStep =>
             /\ all_extracted_data' = RecordsOf(uploaded_invoices, 1)
             /\ verified_invoices' \in {<<>>, all_extracted_data'}
             /\ current_file_index' = 0]_vars

\* a second run has ended with a record, after a first run of two documents
\* of which one was skipped into the table
C22_Witness ==
    /\ run = 2 /\ pc = "idle" /\ extraction_complete
    /\ pressed = "skip"
    /\ Len(CallsOfRun) = 1 /\ Len(call_log) = 3
    /\ Len(all_extracted_data) = 1
    /\ verified_invoices = <<>>

(***************************************************************************)
(* C23.  After a run of Extract made with manual verification on, and any  *)
(* presses of Verify, Skip and Previous, verified_invoices has             *)
(* current_file_index records, the cursor lies between 0 and the length    *)
(* of all_extracted_data, and the i-th verified record carries the file    *)
(* name of the i-th record of all_extracted_data.                          *)
(***************************************************************************)
\* the lists are two objects: no run has ended without manual mode since
\* the last press of Extract
ManualRun == ~same_list

C23_CursorCountsVerified ==
    ManualRun =>
       /\ Len(verified_invoices) = current_file_index
       /\ 0 <= current_file_index
       /\ current_file_index <= Len(all_extracted_data)
       /\ \A i \in 1..Len(verified_invoices) :
              Get(verified_invoices[i], "file_name") = Get(all_extracted_data[i], "file_name")

\* of two extracted records the first was verified with the form typed
\* over and the second skipped
C23_Witness ==
    /\ ManualRun /\ manual_mode /\ extraction_complete /\ pc = "idle"
    /\ pressed = "skip"
    /\ Len(all_extracted_data) = 2
    /\ current_file_index = 2
    /\ Len(verified_invoices) = 2
    /\ Get(verified_invoices[1], "invoice_no") = Str("INV-8")
    /\ Get(all_extracted_data[1], "invoice_no") # Str("INV-8")
    /\ verified_invoices[2] = all_extracted_data[2]
    /\ Get(all_extracted_data[1], "file_name") # Get(all_extracted_data[2], "file_name")

(***************************************************************************)
(* C24.  After any presses of Extract, Verify, Skip and Previous and any   *)
(* changes of the checkbox, verified_invoices holds at most one record     *)
(* for each document the run extracted, so no more records than the run    *)
(* had uploaded files; so too when a run without manual mode is followed   *)
(* by ticking the checkbox and pressing Verify or Skip.                    *)
(***************************************************************************)
\* the number of files the current run was given
FilesOfRun == Len(CallsOfRun)

C24_OneRecordPerDocument ==
    (pc = "idle" /\ extraction_complete) => Len(verified_invoices) <= FilesOfRun

(***************************************************************************)
(* C25.  Verify does not change the line items of a record: the items of   *)
(* the record it appends are the items of the extracted record, and a      *)
(* record extracted with no line items has an empty items sequence         *)
(* (count 0) after verification as before.                                 *)
(***************************************************************************)
\* the step is a press of "Verify & Add to Table"
VerifyStep ==
    /\ pc = "idle" /\ pc' = "idle"
    /\ pressed' = "verify"
    /\ current_file_index' = current_file_index + 1

C25_ItemsKept ==
    [][VerifyStep =>
          Get(verified_invoices'[Len(verified_invoices')], "items")
             = Get(all_extracted_data[current_file_index + 1], "items")]_vars

(***************************************************************************)
(* C26.  In every record extract_invoice_data returns, grand_total and     *)
(* total_gst are numbers, never a string and never null, whatever types    *)
(* the model's JSON gave them, so calculate_summary_statistics over the    *)
(* extracted records returns without raising.                              *)
(***************************************************************************)
C26_TotalsNumeric ==
    ReturnedRecord =>
       /\ \A key \in {"grand_total", "total_gst"} :
              IsNumber(GetOr(return_value, key, Num(0)))
       /\ calculate_summary_statistics(<<return_value>>).type # "exception"

(***************************************************************************)
(* C27.  After any presses of Add Item and Clear All Items every entry of  *)
(* bill_items has a positive quantity and unit price, amount = quantity *  *)
(* unit_price and gst_amount = amount * gst_percentage / 100; an Add Item  *)
(* that is turned down (no item selected, a quantity or price that is not  *)
(* positive, or a failed catalog lookup) leaves bill_items as it was;      *)
(* Clear All Items empties it; and the grand total on the page is the sum  *)
(* of the amounts plus the sum of the gst_amounts, to the two decimals     *)
(* the page shows.                                                         *)
(***************************************************************************)
RECURSIVE SumBack(_, _, _)
\* the sum of a field over the first n entries, from entry n back
SumBack(entries, key, n) ==
    IF n = 0 THEN 0 ELSE entries[n][key] + SumBack(entries, key, n - 1)

\* the exact grand total, in units of 10^-7
ExactGrandTotal ==
    10000 * SumBack(bill_items, "amount", Len(bill_items))
    + SumBack(bill_items, "gst_amount", Len(bill_items))

\* the last Add Item was turned down
TurnedDown(form) ==
    \/ form.item = ""
    \/ form.quantity <= 0
    \/ form.unit_price <= 0
    \/ ~Truthy(form.details[1])
    \/ ~Truthy(form.details[2])

BillEntriesSound ==
    /\ \A k \in 1..Len(bill_items) :
          /\ bill_items[k].quantity > 0
          /\ bill_items[k].unit_price > 0
          /\ bill_items[k].amount = bill_items[k].quantity * bill_items[k].unit_price
          /\ bill_items[k].gst_amount = bill_items[k].amount * bill_items[k].gst_percentage
    /\ bill_shown # NoTotals =>
          /\ 100000 * bill_shown.grand_total - ExactGrandTotal <= 50000
          /\ ExactGrandTotal - 100000 * bill_shown.grand_total <= 50000

C27_BillItemsSound ==
    /\ []BillEntriesSound
    /\ [][/\ (bill_pressed' = "add" /\ TurnedDown(bill_form')) => bill_items' = bill_items
          /\ bill_pressed' = "clear" => bill_items' = <<>>]_vars

\* with one entry on the bill an Add Item with quantity 0 was turned
\* down, and the page shows a total between two hundredths
C27_Witness ==
    /\ Len(bill_items) = 1
    /\ bill_pressed = "add"
    /\ bill_form.item # "" /\ bill_form.quantity = 0 /\ bill_form.unit_price > 0
    /\ bill_items[1].gst_percentage = 1250
    /\ bill_shown # NoTotals
    /\ 100000 * bill_shown.grand_total # ExactGrandTotal

(***************************************************************************)
(* C30.  Every identifier generate_gstin produces has 15 characters and    *)
(* the shape the gstin_no fallback of validate_extracted_data recognises   *)
(* (2 digits, 5 letters, 4 digits, 1 letter, 1 alphanumeric, Z, 1          *)
(* alphanumeric): the pattern, searched in a text that holds the           *)
(* identifier, finds it.                                                   *)
(***************************************************************************)
C30_GstinRecognised ==
    gstin_number # "" =>
       /\ Len(gstin_number) = 15
       /\ Search(gstin_pattern, "GSTIN: " \o gstin_number).found
       /\ Search(gstin_pattern, "GSTIN: " \o gstin_number).group = gstin_number

(***************************************************************************)
(* C29.  Whatever the interleaving of create_user calls made from          *)
(* different sessions at the same time, the users table never holds two    *)
(* rows with one email or one Aadhaar number: of the calls that share an   *)
(* email or an Aadhaar number at most one returns success, and the others  *)
(* return a failure value, none raises.                                    *)
(***************************************************************************)
\* the forms of two sessions ask for the same email or Aadhaar number
Clash(s, t) ==
    \/ signup[s].form.email = signup[t].form.email
    \/ signup[s].form.aadhaar_number = signup[t].form.aadhaar_number

C29_NoDuplicateAccounts ==
    /\ \A j, k \in 1..Len(users) :
          j # k => /\ users[j].email # users[k].email
                   /\ users[j].aadhaar_number # users[k].aadhaar_number
    /\ \A s, t \in DOMAIN signup :
          (s # t /\ Clash(s, t)) =>
              ~(signup[s].result = "success" /\ signup[t].result = "success")
    /\ \A s \in DOMAIN signup :
          /\ signup[s].pc = "done" => signup[s].result \in {"success", "failure"}
          /\ signup[s].pc # "done" => signup[s].result = ""

\* three calls have returned: the first added its row, the second asked
\* for the same email, passed the SELECT and was refused by the INSERT,
\* the third asked for the Aadhaar number of the first
C29_Witness ==
    /\ DOMAIN signup = Sessions
    /\ \A s \in Sessions : signup[s].pc = "done"
    /\ Len(users) = 1
    /\ signup[1].result = "success"
    /\ signup[2].result = "failure" /\ signup[2].form.email = signup[1].form.email
    /\ signup[2].form.aadhaar_number # signup[1].form.aadhaar_number
    /\ db_lock = 2
    /\ signup[3].result = "failure" /\ signup[3].form.email # signup[1].form.email
    /\ signup[3].form.aadhaar_number = signup[1].form.aadhaar_number


SignOutStep == authenticated /\ ~authenticated'
SignInStep == ~authenticated /\ authenticated'

\* what the pages draw of the session: the records, the bill, the statistics
NothingToShow ==
    /\ verified_invoices = <<>> /\ all_extracted_data = <<>>
    /\ current_file_index = 0 /\ ~extraction_complete /\ ~show_final_table
    /\ bill_items = <<>> /\ gstin_number = "" /\ bill_shown = NoTotals
    /\ uploaded_invoices = <<>>
    /\ form_values = NoForm /\ stats = None /\ csv_data = None

\* C28: Sign Out removes every session entry but current_page and auth_mode
\* (user, verified_invoices, all_extracted_data, bill_items, current_nav and
\* the rest), sets current_page to "landing" and authenticated to false; who
\* signs in next in the same browser session finds nothing of the session
\* before: no records, no bill, no statistics, and the user of their own
\* sign-in.
C28_SignOutClearsSession ==
    [][/\ SignOutStep =>
             /\ user' = NoUser /\ current_nav' = ""
             /\ NothingToShow'
             /\ current_page' = "landing" /\ auth_mode' = auth_mode
       /\ SignInStep =>
             /\ NothingToShow /\ NothingToShow'
             /\ user'.email = signed_in'[1]]_vars

\* the second account is signed in after a session that extracted a document
C28_Witness ==
    /\ authenticated /\ user.email = "ravi@ca.in" /\ rendered = "extraction"
    /\ run = 1 /\ call_log # <<>> /\ llm_log # <<>>
    /\ pc = "idle" /\ ~extraction_complete
    /\ verified_invoices = <<>> /\ bill_items = <<>>


=============================================================================
